---- MODULE Spec2Model ----
(***************************************************************************)
(* Rural-insights backend: the upload pipeline (api/routes/upload.py,       *)
(* services/csv_processor.py), the enrichment client                        *)
(* (services/ai_analyzer.py) and the /enrich route (api/routes/insights.py).*)
(*                                                                          *)
(* Numbers.  The code computes with binary floats; the model computes with  *)
(* exact decimals.  Money is an integer number of thousandths of a real     *)
(* (150.00 is 150000), a percentage an integer number of hundredths of a    *)
(* percent (33.33 % is 3333), an estimated impact a pair [hi, lo] of whole   *)
(* reals and millionths of a real (the model checker's integers have 32     *)
(* bits, and a total times a variation does not fit).  Rounding to 2        *)
(* decimals is                                                              *)
(* round-half-to-even, as numpy and Python round; the amounts the model     *)
(* draws never put a sum on an exact half cent, where the binary            *)
(* representation would decide instead.                                     *)
(*                                                                          *)
(* Optional values.  None / NaN / NaT is the empty tuple <<>>, a present    *)
(* value v is the 1-tuple <<v>>.                                            *)
(***************************************************************************)
EXTENDS Integers, Sequences, FiniteSets, TLC

\* ------------------------------------------------------------------ bounds
\* rows of a ledger drawn freely from RowDomain
MaxRows == 2
\* distinct categories of a one-row-per-category ledger
MaxCats == 6
\* transactions of a single-category ledger
MaxTx == 4
\* length of a list field of a service reply
MaxListLen == 6
\* entries of insights_principais in a reply consumed by process_csv
MaxInsights == 4
\* months a category of a three-month ledger spends in
MaxMonths == 3

\* ------------------------------------------------------- program constants
\* a retry loop that tries once more
max_retries_one_more == 3 + 1

max_retries == 3
timeout == 30
MAX_FILE_SIZE == 10 * 1024 * 1024
TopN == 5
AlertCap == 10
VariationThreshold == 30
ConcentrationThreshold == 25
MinOutlierTx == 4
CapInsights == 5
CapAnalise == 5
CapOportunidades == 3
CapRecomendacoes == 3
ConsumedInsights == 3
FallbackTopN == 3
FallbackVariation == 20
FallbackConcentration == 30

\* ------------------------------------------------------------- arithmetic
None == <<>>
Some(v) == <<v>>
IsNone(o) == o = <<>>

Abs(x) == IF x < 0 THEN -x ELSE x

Min(a, b) == IF a < b THEN a ELSE b

RECURSIVE SumSeq(_)
SumSeq(s) == IF s = <<>> THEN 0 ELSE Head(s) + SumSeq(Tail(s))

\* nearest integer to n/d (d > 0), ties to the even neighbour
RoundDiv(n, d) ==
  LET q == n \div d
      r == n % d
  IN  IF 2 * r < d THEN q
      ELSE IF 2 * r > d THEN q + 1
      ELSE IF q % 2 = 0 THEN q ELSE q + 1

\* a / b as a percentage rounded to 2 decimals, in hundredths of a percent:
\* the nearest integer to a * 10000 / b (b > 0), by long division in two
\* steps so that no intermediate exceeds 32 bits
Pct(a, b) ==
  LET q1 == (a * 100) \div b
      r1 == (a * 100) % b
      q2 == (r1 * 100) \div b
      r2 == (r1 * 100) % b
      q == q1 * 100 + q2
  IN  IF 2 * r2 < b THEN q
      ELSE IF 2 * r2 > b THEN q + 1
      ELSE IF q % 2 = 0 THEN q ELSE q + 1

\* round(x, 2) of an amount in thousandths
Round2(x) == RoundDiv(x, 10) * 10

\* the first n elements of s: the Python slice s[:n]
Take(s, n) == SubSeq(s, 1, Min(n, Len(s)))

\* ------------------------------------------------------------ text cells
\* A text cell is a base text written in upper case without surrounding
\* blanks, possibly lower-cased and possibly padded with blanks; nan is an
\* empty cell.
Txt(b) == [nan |-> FALSE, base |-> b, lower |-> FALSE, padded |-> FALSE]
RawTxt(b) == [nan |-> FALSE, base |-> b, lower |-> TRUE, padded |-> TRUE]
NaNTxt == [nan |-> TRUE, base |-> "", lower |-> FALSE, padded |-> FALSE]

\* Series.str.strip() and Series.str.upper(): NaN stays NaN
StrStrip(t) == IF t.nan THEN t ELSE [t EXCEPT !.padded = FALSE]
StrUpper(t) == IF t.nan THEN t ELSE [t EXCEPT !.lower = FALSE]

\* ----------------------------------------------------------------- dates
RawDate(d, m, y) == [d |-> d, m |-> m, y |-> y]
BlankDate == RawDate(0, 0, 0)

IsLeap(y) == (y % 4 = 0 /\ y % 100 # 0) \/ y % 400 = 0

DaysIn(m, y) ==
  IF m = 2 THEN (IF IsLeap(y) THEN 29 ELSE 28)
  ELSE IF m \in {4, 6, 9, 11} THEN 30 ELSE 31

\* pd.to_datetime(format='%d/%m/%Y', errors='coerce'): NaT when the text is
\* no calendar date
ParseDate(raw) ==
  IF raw.m \in 1..12 /\ raw.d >= 1 /\ raw.d <= DaysIn(raw.m, raw.y)
  THEN Some(raw) ELSE None

DateOrd(dt) == (dt.y * 12 + dt.m) * 32 + dt.d

\* dt.to_period('M'), as an ordinal, and its text "YYYY-MM"
Period(dt) == dt.y * 12 + (dt.m - 1)
PeriodStr(p) == [y |-> p \div 12, m |-> (p % 12) + 1]

\* --------------------------------------------------------- ledger rows
\* One line of the uploaded file as pd.read_csv yields it.
Row(desc, valor, data, oper, real) ==
  [idx |-> 0, descricao |-> desc, valor |-> valor, data |-> data,
   operacao |-> oper, realizado |-> real]

SAIDA == Txt("SAÍDA")
SIM == Txt("SIM")

\* category names, in the order of Python's string comparison
CatNames ==
  <<"ADUBO", "COMBUSTÍVEL", "ENERGIA", "FRETE", "MANUTENÇÃO",
    "NUTRIÇÃO", "SEMENTES", "VACINAS", "VENDA DE GADO">>

Rank(b) == CHOOSE i \in 1..Len(CatNames) : CatNames[i] = b

\* position of a text cell in Python's string order: a leading blank sorts
\* before every letter, an upper-case letter before a lower-case one
TextOrd(t) ==
  (IF t.padded THEN 0 ELSE IF t.lower THEN 200 ELSE 100) + Rank(t.base)

\* rows a ledger of at most MaxRows rows is drawn from: the two rows of the
\* documented sample, a row written in lower case with blanks, an inflow, a
\* row not executed, a row for each cell that fails to parse, a zero amount
RowDomain ==
  { Row(Txt("COMBUSTÍVEL"), Some(-150000), RawDate(15, 1, 2024), SAIDA, SIM),
    Row(Txt("COMBUSTÍVEL"), Some(200000), RawDate(15, 2, 2024), SAIDA, SIM),
    Row(RawTxt("NUTRIÇÃO"), Some(80004), RawDate(31, 1, 2024),
        RawTxt("SAÍDA"), RawTxt("SIM")),
    Row(Txt("VENDA DE GADO"), Some(500000), RawDate(20, 1, 2024),
        Txt("ENTRADA"), SIM),
    Row(Txt("COMBUSTÍVEL"), Some(-90000), RawDate(15, 2, 2024),
        SAIDA, Txt("NÃO")),
    Row(Txt("NUTRIÇÃO"), None, RawDate(10, 1, 2024), SAIDA, SIM),
    Row(Txt("NUTRIÇÃO"), Some(70000), RawDate(31, 2, 2024), SAIDA, SIM),
    Row(NaNTxt, Some(60000), RawDate(10, 1, 2024), SAIDA, SIM),
    Row(Txt("COMBUSTÍVEL"), Some(0), RawDate(15, 1, 2024), SAIDA, SIM) }

\* the DataFrame index: row i of the file has idx i
Indexed(rows) == [i \in 1..Len(rows) |-> [rows[i] EXCEPT !.idx = i]]

FreeLedgers ==
  { Indexed(f) : f \in UNION { [1..n -> RowDomain] : n \in 0..MaxRows } }

\* one outflow per category, for the first k categories: 100.00, 80.00,
\* 60.00, 40.00, then 20.00 for the fifth category and every later one,
\* each with or without 0.004 more (which rounding to cents removes)
CatBase(i) == IF i < TopN THEN 20000 * (TopN + 1 - i) ELSE 20000

SubCents == {0, 4}

CategoryLedgers ==
  UNION { { Indexed([i \in 1..k |->
       Row(Txt(CatNames[i]), Some(CatBase(i) + f[i]), RawDate(15, 1, 2024),
           SAIDA, SIM)])
    : f \in [1..k -> SubCents] } : k \in 1..MaxCats }

\* k outflows of one category, in chronological order over two months
TxValues == {10000, 1000000}

TxLedgers ==
  UNION { UNION { { Indexed([i \in 1..k |->
       Row(Txt("COMBUSTÍVEL"), Some(f[i]),
           RawDate(15, IF i <= j THEN 1 ELSE 2, 2024), SAIDA, SIM)])
    : f \in [1..k -> TxValues] } : j \in 0..k } : k \in 1..MaxTx }

\* three categories whose shares of the total are 20.007 %, 30.007 % and
\* 49.986 %, and three equal ones
ShareLedgers ==
  { Indexed([i \in 1..3 |->
       Row(Txt(CatNames[i]), Some(f[i]), RawDate(15, 1, 2024), SAIDA, SIM)])
    : f \in { <<200070, 300070, 499860>>, <<100000, 100000, 100000>> } }

\* one outflow of a category in each of k months out of 12/2023, 01/2024
\* and 03/2024, in chronological order
MonthValues == {0, 150000, 200000}

MonthOf(i) ==
  IF i = 1 THEN RawDate(20, 12, 2023)
  ELSE IF i = 2 THEN RawDate(15, 1, 2024)
  ELSE RawDate(10, 3, 2024)

MonthLedgers ==
  UNION { { Indexed([i \in 1..k |->
       Row(Txt("COMBUSTÍVEL"), Some(f[i]), MonthOf(i), SAIDA, SIM)])
    : f \in [1..k -> MonthValues] } : k \in 2..MaxMonths }

\* five categories of one outflow each, of 2100.00 to 2500.00, then four
\* outflows of a sixth category, which is not among the five largest
TailLedgers ==
  { Indexed([i \in 1..(TopN + MinOutlierTx) |->
       IF i <= TopN
       THEN Row(Txt(CatNames[i]), Some(2000000 + 100000 * i),
                RawDate(15, 1, 2024), SAIDA, SIM)
       ELSE Row(Txt("VACINAS"),
                Some(IF i < TopN + MinOutlierTx THEN 10000 ELSE x),
                RawDate(15, 1, 2024), SAIDA, SIM)])
    : x \in TxValues }

\* nine outflows of 1.00 of a category and three large ones, which are its
\* outliers
LargeAmounts == {<<9140, 10150, 11160>>, <<9140, 10150, 7120>>,
                 <<9140, 10150, 12170>>}

ResidueLedgers ==
  { Indexed([i \in 1..12 |->
       Row(Txt("COMBUSTÍVEL"), Some(IF i <= 9 THEN 1000 ELSE large[i - 9]),
           RawDate(15, 1, 2024), SAIDA, SIM)])
    : large \in LargeAmounts }

\* five categories of four outflows each, three small ones in 01/2024 and
\* one of a hundred times as much in 02/2024: three categories of about
\* 31 % of the total each and two of about 3 %
CrowdedBase == <<10000, 10010, 10020, 1000, 1010>>

CrowdedLedgers ==
  { Indexed([i \in 1..(4 * TopN) |->
       LET c == (i + 3) \div 4
       IN  IF i % 4 # 0
           THEN Row(Txt(CatNames[c]), Some(CrowdedBase[c]),
                    RawDate(15, 1, 2024), SAIDA, SIM)
           ELSE Row(Txt(CatNames[c]), Some(100 * CrowdedBase[c]),
                    RawDate(15, 2, 2024), SAIDA, SIM)]) }

\* four categories of one outflow of 0.006 each
SubCentLedgers ==
  { Indexed([i \in 1..4 |->
       Row(Txt(CatNames[i]), Some(6), RawDate(15, 1, 2024), SAIDA, SIM)]) }

Ledgers ==
  FreeLedgers \cup CategoryLedgers \cup TxLedgers \cup ShareLedgers
  \cup MonthLedgers \cup TailLedgers \cup ResidueLedgers
  \cup CrowdedLedgers \cup SubCentLedgers

\* ------------------------------------------------------ ledger normalizer
\* CSVProcessor._prepare_dataframe
ConvertRow(r) ==
  [r EXCEPT !.valor = IF IsNone(@) THEN None ELSE Some(Abs(@[1])),
            !.data = ParseDate(@)]

NotNull(r) == ~IsNone(r.valor) /\ ~IsNone(r.data) /\ ~r.descricao.nan

NormalizeRow(r) ==
  [r EXCEPT !.valor = @[1], !.data = @[1],
            !.descricao = StrUpper(StrStrip(@)),
            !.operacao = StrUpper(StrStrip(@)),
            !.realizado = StrUpper(StrStrip(@))]

prepare_dataframe(df) ==
  LET converted == [i \in 1..Len(df) |-> ConvertRow(df[i])]
      kept == SelectSeq(converted, NotNull)
  IN  [i \in 1..Len(kept) |-> NormalizeRow(kept[i])]

\* a filter that keeps the outflows not executed as well
IsSaida(r) == r.operacao = SAIDA

\* the filter of process_csv: executed outflows only
IsSaidaRealizada(r) == r.operacao = SAIDA /\ r.realizado = SIM

filter_saidas(df) == SelectSeq(df, IsSaidaRealizada)

\* -------------------------------------------------------------- aggregator
Valores(rows) == [i \in 1..Len(rows) |-> rows[i].valor]

\* df[df['descricao'] == categoria]
RowsOf(df, categoria) == SelectSeq(df, LAMBDA r : r.descricao = categoria)

Categorias(df) == { df[i].descricao : i \in 1..Len(df) }

\* CSVProcessor._get_periodo
get_periodo(df) ==
  LET first == CHOOSE i \in 1..Len(df) :
                 \A j \in 1..Len(df) : DateOrd(df[i].data) <= DateOrd(df[j].data)
      last == CHOOSE i \in 1..Len(df) :
                 \A j \in 1..Len(df) : DateOrd(df[i].data) >= DateOrd(df[j].data)
  IN  [inicio |-> df[first].data, fim |-> df[last].data]

\* df_cat.groupby('mes')['valor'].sum(): the months of a category, ascending
Meses(rows) == { Period(rows[i].data) : i \in 1..Len(rows) }

RowsOfMes(rows, mes) == SelectSeq(rows, LAMBDA r : Period(r.data) = mes)

RECURSIVE SortedSet(_)
SortedSet(S) ==
  IF S = {} THEN <<>>
  ELSE LET m == CHOOSE x \in S : \A y \in S : x <= y
       IN  <<m>> \o SortedSet(S \ {m})

\* a variation of the latest month against the first one
calculate_monthly_variation_first(df, categoria) ==
  LET df_cat == RowsOf(df, categoria)
      meses == SortedSet(Meses(df_cat))
      monthly == [i \in 1..Len(meses) |->
                    SumSeq(Valores(RowsOfMes(df_cat, meses[i])))]
  IN  IF Len(monthly) < 2 THEN None
      ELSE LET ultimo_mes == monthly[Len(monthly)]
               primeiro_mes == monthly[1]
           IN  IF primeiro_mes = 0 THEN None
               ELSE Some(Pct(ultimo_mes - primeiro_mes, primeiro_mes))

\* CSVProcessor._calculate_monthly_variation
calculate_monthly_variation(df, categoria) ==
  LET df_cat == RowsOf(df, categoria)
      meses == SortedSet(Meses(df_cat))
      monthly == [i \in 1..Len(meses) |->
                    SumSeq(Valores(RowsOfMes(df_cat, meses[i])))]
  IN  IF Len(monthly) < 2 THEN None
      ELSE LET ultimo_mes == monthly[Len(monthly)]
               penultimo_mes == monthly[Len(monthly) - 1]
           IN  IF penultimo_mes = 0 THEN None
               ELSE Some(Pct(ultimo_mes - penultimo_mes, penultimo_mes))

\* groupby('descricao').agg(sum, count, mean).round(2), one row per category
categoria_stats(df, categoria) ==
  LET v == Valores(RowsOf(df, categoria))
  IN  [total |-> Round2(SumSeq(v)),
       count |-> Len(v),
       mean |-> RoundDiv(SumSeq(v), 10 * Len(v)) * 10]

\* sort_values('total', ascending=False): every order of S that is
\* non-increasing in f.  The sort is numpy's quicksort, which is not stable:
\* categories with equal totals come out in an order the build decides.
RECURSIVE DescOrders(_, _)
DescOrders(f, S) ==
  IF S = {} THEN {<<>>}
  ELSE LET top == { c \in S : \A d \in S : f[c] >= f[d] }
       IN  UNION { { <<c>> \o t : t \in DescOrders(f, S \ {c}) } : c \in top }

\* a sort in ascending order of total
RECURSIVE AscOrders(_, _)
AscOrders(f, S) ==
  IF S = {} THEN {<<>>}
  ELSE LET low == { c \in S : \A d \in S : f[c] <= f[d] }
       IN  UNION { { <<c>> \o t : t \in AscOrders(f, S \ {c}) } : c \in low }

SortValuesAscending(df) ==
  AscOrders([c \in Categorias(df) |-> categoria_stats(df, c).total],
            Categorias(df))

SortValuesOrders(df) ==
  DescOrders([c \in Categorias(df) |-> categoria_stats(df, c).total],
             Categorias(df))

\* round(total / total_gasto * 100, 2): NaN when the grand total is 0
Percentual(total, total_gasto) ==
  IF total_gasto = 0 THEN None ELSE Some(Pct(total, total_gasto))

\* a ranking that reports one category less
calculate_top_categories_short(df, total_gasto, order) ==
  LET head == Take(order, TopN - 1)
  IN  [i \in 1..Len(head) |->
        LET stats == categoria_stats(df, head[i])
        IN  [nome |-> head[i],
             valor |-> stats.total,
             percentual |-> Percentual(stats.total, total_gasto),
             transacoes |-> stats.count,
             media_por_transacao |-> stats.mean,
             variacao_mensal |-> calculate_monthly_variation(df, head[i])]]

\* CSVProcessor._calculate_top_categories, for the order the sort produced
calculate_top_categories(df, total_gasto, order) ==
  LET head == Take(order, TopN)
  IN  [i \in 1..Len(head) |->
        LET stats == categoria_stats(df, head[i])
        IN  [nome |-> head[i],
             valor |-> stats.total,
             percentual |-> Percentual(stats.total, total_gasto),
             transacoes |-> stats.count,
             media_por_transacao |-> stats.mean,
             variacao_mensal |-> calculate_monthly_variation(df, head[i])]]

\* Series.nlargest(n): the n largest, the first in index order among equals;
\* the index of the grouped sums is the category names in string order
RECURSIVE NLargest(_, _, _)
NLargest(f, S, n) ==
  IF S = {} \/ n = 0 THEN <<>>
  ELSE LET c == CHOOSE x \in S :
                  \A y \in S : f[x] > f[y]
                               \/ (f[x] = f[y] /\ TextOrd(x) <= TextOrd(y))
       IN  <<c>> \o NLargest(f, S \ {c}, n - 1)

\* CSVProcessor._calculate_monthly_evolution: a dict in insertion order
calculate_monthly_evolution(df) ==
  LET top_cats ==
        NLargest([c \in Categorias(df) |-> SumSeq(Valores(RowsOf(df, c)))],
                 Categorias(df), TopN)
  IN  [i \in 1..Len(top_cats) |->
        LET df_cat == RowsOf(df, top_cats[i])
            meses == SortedSet(Meses(df_cat))
        IN  [categoria |-> top_cats[i],
             evolucao |-> [k \in 1..Len(meses) |->
                [mes |-> PeriodStr(meses[k]),
                 valor |-> SumSeq(Valores(RowsOfMes(df_cat, meses[k]))),
                 transacoes |-> Len(RowsOfMes(df_cat, meses[k]))]]]]

\* -------------------------------------------------------------- impacts
\* An estimated impact: hi whole reals and lo millionths, 0 <= lo < 10^6,
\* and, where the float is what is left of a difference of two nearly equal
\* floats, that residue in units of 2^-48 (3.55e-15).
Imp(hi, lo) == [hi |-> hi, lo |-> lo, residue |-> 0]
ImpZero == Imp(0, 0)

ImpAdd(x, y) ==
  [hi |-> x.hi + y.hi + (x.lo + y.lo) \div 1000000,
   lo |-> (x.lo + y.lo) % 1000000,
   residue |-> x.residue + y.residue]

ImpGt(x, y) ==
  \/ x.hi > y.hi
  \/ (x.hi = y.hi /\ x.lo > y.lo)
  \/ (x.hi = y.hi /\ x.lo = y.lo /\ x.residue > y.residue)

\* a * b millionths (a, b >= 0), multiplied in limbs of 1000
ImpMul(a, b) ==
  LET a1 == a \div 1000
      a0 == a % 1000
      b1 == b \div 1000
      b0 == b % 1000
      mid == a1 * b0 + a0 * b1
      low == (mid % 1000) * 1000 + a0 * b0
  IN  Imp(a1 * b1 + mid \div 1000 + low \div 1000000, low % 1000000)

\* x.impacto_estimado or 0
ImpOrZero(o) == IF IsNone(o) THEN ImpZero ELSE o[1]

\* ------------------------------------------------------------ alert engine
Alert(tipo, categoria, texto, n, impacto, acao) ==
  [tipo |-> tipo, categoria |-> categoria,
   mensagem |-> [texto |-> texto, n |-> n],
   impacto_estimado |-> impacto, acao_sugerida |-> acao]

\* a pass that reports every increase
VariationAlertsAnyIncrease(top_categories) ==
  LET hit == SelectSeq(top_categories, LAMBDA cat :
               ~IsNone(cat.variacao_mensal) /\ cat.variacao_mensal[1] > 0)
  IN  [i \in 1..Len(hit) |->
        Alert("urgent", hit[i].nome, "aumentou", hit[i].variacao_mensal[1],
              Some(ImpMul(hit[i].valor \div 10, hit[i].variacao_mensal[1])),
              "Revisar fornecedores")]

\* the high variation pass: cat.valor * (cat.variacao_mensal / 100), the
\* total in cents times the variation in hundredths of a percent
VariationAlerts(top_categories) ==
  LET hit == SelectSeq(top_categories, LAMBDA cat :
               ~IsNone(cat.variacao_mensal) /\ cat.variacao_mensal[1] # 0
               /\ cat.variacao_mensal[1] > VariationThreshold * 100)
  IN  [i \in 1..Len(hit) |->
        Alert("urgent", hit[i].nome, "aumentou", hit[i].variacao_mensal[1],
              Some(ImpMul(hit[i].valor \div 10, hit[i].variacao_mensal[1])),
              "Revisar fornecedores")]

\* a pass that reports a share of exactly 25 % as well
ConcentrationAlertsInclusive(top_categories) ==
  LET hit == SelectSeq(top_categories, LAMBDA cat :
               ~IsNone(cat.percentual)
               /\ cat.percentual[1] >= ConcentrationThreshold * 100)
  IN  [i \in 1..Len(hit) |->
        Alert("warning", hit[i].nome, "representa", hit[i].percentual[1],
              Some(ImpMul(hit[i].valor, 100)),
              "Considerar estratégias de redução")]

\* the high concentration pass: cat.valor * 0.1; NaN > 25 is false
ConcentrationAlerts(top_categories) ==
  LET hit == SelectSeq(top_categories, LAMBDA cat :
               ~IsNone(cat.percentual)
               /\ cat.percentual[1] > ConcentrationThreshold * 100)
  IN  [i \in 1..Len(hit) |->
        Alert("warning", hit[i].nome, "representa", hit[i].percentual[1],
              Some(ImpMul(hit[i].valor, 100)),
              "Considerar estratégias de redução")]

\* df['descricao'].unique(): the categories in order of first appearance
RECURSIVE Unique(_)
Unique(df) ==
  IF df = <<>> THEN <<>>
  ELSE LET rest == Unique(SubSeq(df, 1, Len(df) - 1))
           c == df[Len(df)].descricao
       IN  IF \E i \in 1..Len(rest) : rest[i] = c THEN rest
           ELSE Append(rest, c)

\* ascending sort of a sequence of numbers
RECURSIVE SortAsc(_)
SortAsc(v) ==
  IF v = <<>> THEN <<>>
  ELSE LET i == CHOOSE k \in 1..Len(v) : \A j \in 1..Len(v) : v[k] <= v[j]
       IN  <<v[i]>> \o SortAsc(SubSeq(v, 1, i - 1) \o SubSeq(v, i + 1, Len(v)))

\* a quantile that takes the order statistic above the position
Quantile4Higher(v, k) ==
  LET x == SortAsc(v)
      lo == ((Len(x) - 1) * k) \div 4
      r == ((Len(x) - 1) * k) % 4
  IN  IF r = 0 THEN 4 * x[lo + 1] ELSE 4 * x[lo + 2]

\* 4 * Series.quantile(k / 4), by linear interpolation between the order
\* statistics around position (n - 1) * k / 4
Quantile4(v, k) ==
  LET x == SortAsc(v)
      lo == ((Len(x) - 1) * k) \div 4
      r == ((Len(x) - 1) * k) % 4
  IN  IF r = 0 THEN 4 * x[lo + 1]
      ELSE 4 * x[lo + 1] + r * (x[lo + 2] - x[lo + 1])

\* the rows above Q3 + 1.5 * IQR, compared at 8 times their size
Outliers(rows) ==
  LET Q1 == Quantile4(Valores(rows), 1)
      Q3 == Quantile4(Valores(rows), 3)
  IN  SelectSeq(rows, LAMBDA r : 8 * r.valor > 5 * Q3 - 3 * Q1)

IsPowerOfTwo(n) == \E k \in 0..30 : n = 2^k

\* s - (s / n) * n in binary64, for s the sum of v added up in order and n
\* its length, in units of 2^-48.  Dividing by a power of two and multiplying
\* back is exact; for three amounts the residue is what binary64 arithmetic
\* gives for the amounts of the ledgers of the model (the others give 0).
FloatResidue(v) ==
  IF IsPowerOfTwo(Len(v)) THEN 0
  ELSE IF v = <<9140, 10150, 11160>> THEN -1
  ELSE IF v = <<9140, 10150, 7120>> THEN 1
  ELSE 0

\* an impact that is the excess of the outliers over the mean of the category
OutlierImpactExcess(rows, outliers) ==
  LET excess == SumSeq(Valores(outliers)) * Len(rows)
                - SumSeq(Valores(rows)) * Len(outliers)
  IN  Imp(excess \div (1000 * Len(rows)),
          ((excess \div Len(rows)) % 1000) * 1000)

\* outliers['valor'].sum() - outliers['valor'].mean() * len(outliers): the
\* mean is the sum over the count, so what is left is the rounding residue
OutlierImpact(rows, outliers) ==
  [hi |-> 0, lo |-> 0, residue |-> FloatResidue(Valores(outliers))]

\* the outlier pass, over every category of the filtered set
OutlierAlerts(df) ==
  LET cats == SelectSeq(Unique(df), LAMBDA c :
                Len(RowsOf(df, c)) >= MinOutlierTx
                /\ Outliers(RowsOf(df, c)) # <<>>)
  IN  [i \in 1..Len(cats) |->
        LET outliers == Outliers(RowsOf(df, cats[i]))
        IN  Alert("info", cats[i], "atípicas", Len(outliers),
                  Some(OutlierImpact(RowsOf(df, cats[i]), outliers)),
                  "Verificar compras emergenciais")]

\* sorted(alerts, key=impacto or 0) without reverse=True
RECURSIVE SortByImpactAscending(_)
SortByImpactAscending(alerts) ==
  IF alerts = <<>> THEN <<>>
  ELSE LET rest == SortByImpactAscending(SubSeq(alerts, 1, Len(alerts) - 1))
           a == alerts[Len(alerts)]
           ahead == SelectSeq(rest, LAMBDA b :
                      ~ImpGt(ImpOrZero(b.impacto_estimado),
                             ImpOrZero(a.impacto_estimado)))
           behind == SelectSeq(rest, LAMBDA b :
                      ImpGt(ImpOrZero(b.impacto_estimado),
                            ImpOrZero(a.impacto_estimado)))
       IN  ahead \o <<a>> \o behind

\* sorted(alerts, key=impacto or 0, reverse=True): stable, so alerts of equal
\* impact keep their order
RECURSIVE SortByImpact(_)
SortByImpact(alerts) ==
  IF alerts = <<>> THEN <<>>
  ELSE LET rest == SortByImpact(SubSeq(alerts, 1, Len(alerts) - 1))
           a == alerts[Len(alerts)]
           ahead == SelectSeq(rest, LAMBDA b :
                      ~ImpGt(ImpOrZero(a.impacto_estimado),
                             ImpOrZero(b.impacto_estimado)))
           behind == SelectSeq(rest, LAMBDA b :
                      ImpGt(ImpOrZero(a.impacto_estimado),
                            ImpOrZero(b.impacto_estimado)))
       IN  ahead \o <<a>> \o behind

\* CSVProcessor._generate_alerts
generate_alerts(df, top_categories) ==
  Take(SortByImpact(VariationAlerts(top_categories)
                    \o ConcentrationAlerts(top_categories)
                    \o OutlierAlerts(df)),
       AlertCap)

RECURSIVE ImpSum(_)
ImpSum(alerts) ==
  IF alerts = <<>> THEN ImpZero
  ELSE ImpAdd(ImpOrZero(Head(alerts).impacto_estimado), ImpSum(Tail(alerts)))

\* CSVProcessor._generate_executive_summary: what the sentences state
generate_executive_summary(total_gasto, num_transacoes, top_categories, alerts) ==
  [num_transacoes |-> num_transacoes,
   total_gasto |-> total_gasto,
   top_cat |-> IF top_categories = <<>> THEN None
               ELSE Some([nome |-> top_categories[1].nome,
                          percentual |-> top_categories[1].percentual]),
   urgent_alerts |-> Len(SelectSeq(alerts, LAMBDA a : a.tipo = "urgent")),
   potential_savings |-> ImpSum(alerts),
   ia |-> FALSE]

\* ------------------------------------------------------ enrichment client
VARIABLE clock      \* datetime.now().month

\* the months a request is served in: one of the planting season, one of
\* the planning season
Months == {1, 8}

\* AIAnalyzer._get_epoca_agricola, for the month the clock shows
get_epoca_agricola(month) ==
  IF month \in {10, 11, 12, 1} THEN "Plantio (safra de verão)"
  ELSE IF month \in {2, 3, 4} THEN "Desenvolvimento/Tratos culturais"
  ELSE IF month \in {5, 6, 7} THEN "Colheita/Entressafra"
  ELSE "Preparo do solo/Planejamento"

\* A value of the service's JSON reply under one of the four keys: absent, a
\* list, a string (its characters are the items) or a number.
Missing == [kind |-> "missing", items |-> <<>>]
ListOf(items) == [kind |-> "list", items |-> items]
StrOf(items) == [kind |-> "str", items |-> items]
Num == [kind |-> "num", items |-> <<>>]

\* An entry of a list: a record (JSON object), a record with a field the Alert
\* schema rejects, a text, or a character of a string.  id is its position
\* in the list it was written in.
Item(id, shape, categoria, valor_impacto) ==
  [id |-> id, shape |-> shape, categoria |-> categoria,
   valor_impacto |-> valor_impacto]

Opaque(id) == Item(id, "record", Txt("Geral"), None)

\* an entry whose text names a season
Seasonal(id, epoca) == Item(id, "record", Txt(epoca), None)
Character(id) == Item(id, "char", Txt("Geral"), None)

Reply(ip, ac, oe, rs, fb) ==
  [insights_principais |-> ip, analise_categorias |-> ac,
   oportunidades_economia |-> oe, recomendacoes_sazonais |-> rs,
   _fallback |-> fb]

Fields(d) ==
  <<d.insights_principais, d.analise_categorias, d.oportunidades_economia,
    d.recomendacoes_sazonais>>

\* insights[key][:n] raises TypeError on a value that cannot be sliced
ValidateRaises(reply) == \E i \in 1..4 : Fields(reply)[i].kind = "num"

\* if key not in insights: insights[key] = []
OrEmptyList(fv) == IF fv.kind = "missing" THEN ListOf(<<>>) ELSE fv

\* insights[key][:n]
Slice(fv, n) == [fv EXCEPT !.items = Take(@, n)]

\* AIAnalyzer._validate_insights; every other key of the reply is kept
validate_insights(insights) ==
  Reply(Slice(OrEmptyList(insights.insights_principais), CapInsights),
        Slice(OrEmptyList(insights.analise_categorias), CapAnalise),
        Slice(OrEmptyList(insights.oportunidades_economia), CapOportunidades),
        Slice(OrEmptyList(insights.recomendacoes_sazonais), CapRecomendacoes),
        insights._fallback)

\* a fallback whose first insight is the recommendation for the season
get_fallback_insights_seasonal(top_categories, existing_alerts) ==
  Reply(ListOf(<<Seasonal(1, get_epoca_agricola(clock))>>),
        ListOf([i \in 1..Min(Len(top_categories), FallbackTopN) |->
                 Item(i, "record", top_categories[i].nome, None)]),
        ListOf(<<Opaque(1)>>),
        ListOf(<<Seasonal(1, get_epoca_agricola(clock))>>),
        TRUE)

\* the loop of _get_fallback_insights over top_categories[:3]
FallbackKind(cat) ==
  IF ~IsNone(cat.variacao_mensal) /\ cat.variacao_mensal[1] # 0
     /\ cat.variacao_mensal[1] > FallbackVariation * 100
  THEN "alerta"
  ELSE IF ~IsNone(cat.percentual)
          /\ cat.percentual[1] > FallbackConcentration * 100
  THEN "economia"
  ELSE "nenhum"

\* AIAnalyzer._get_fallback_insights
get_fallback_insights(top_categories, existing_alerts) ==
  LET top == Take(top_categories, FallbackTopN)
      hit == SelectSeq(top, LAMBDA cat : FallbackKind(cat) # "nenhum")
  IN  Reply(
        ListOf([i \in 1..Len(hit) |->
          Item(i, "record", hit[i].nome,
               Some(ImpMul(hit[i].valor,
                           IF FallbackKind(hit[i]) = "alerta" THEN 100 ELSE 150)))]),
        ListOf([i \in 1..Len(top) |-> Item(i, "record", top[i].nome, None)]),
        ListOf(<<Opaque(1)>>),
        ListOf(<<Seasonal(1, get_epoca_agricola(clock))>>),
        TRUE)

\* the loop of process_csv over ai_insights["insights_principais"][:3]: the
\* alerts appended before the first entry that raises, and whether one raised
ConsumeRaises(item) == item.shape # "record"

RECURSIVE AppendInsights(_, _)
AppendInsights(alertas, items) ==
  IF items = <<>> THEN [alertas |-> alertas, raised |-> FALSE]
  ELSE IF ConsumeRaises(Head(items)) THEN [alertas |-> alertas, raised |-> TRUE]
  ELSE AppendInsights(
         Append(alertas,
                Alert("info", Head(items).categoria, "insight", Head(items).id,
                      Head(items).valor_impacto, "acao_recomendada")),
         Tail(items))

\* ------------------------------------------------------- encoding detector
\* The bytes of an upload, as far as decoding goes: whether they are ASCII,
\* whether they are well-formed UTF-8, whether every byte is defined in
\* cp1252, and what chardet.detect makes of their first 10 000 bytes.
Bytes(ascii, utf8, cp1252, chardet) ==
  [ascii |-> ascii, utf8 |-> utf8, cp1252 |-> cp1252, chardet |-> chardet]

\* chardet.detect raises, or returns an encoding (none when it detects
\* nothing) and a confidence, here in hundredths
Detected(encoding, confidence) ==
  [raises |-> FALSE, encoding |-> encoding, confidence |-> confidence]

DetectRaises == [raises |-> TRUE, encoding |-> "", confidence |-> 0]

NoEncoding == "None"

ConfidenceThreshold == 70

encoding_options == <<"utf-8", "latin1", "iso-8859-1", "cp1252">>

\* bytes.decode(encoding) returns: latin1 and iso-8859-1 map every byte
Decodes(file_content, encoding) ==
  IF encoding \in {"utf-8", "UTF-8-SIG"} THEN file_content.utf8
  ELSE IF encoding = "ascii" THEN file_content.ascii
  ELSE IF encoding \in {"cp1252", "Windows-1252"} THEN file_content.cp1252
  ELSE encoding \in {"latin1", "iso-8859-1", "ISO-8859-1"}

\* the loop of detect_encoding over self.encoding_options from option k on,
\* and its default
RECURSIVE Probe(_, _)
Probe(file_content, k) ==
  IF k > Len(encoding_options) THEN "latin1"
  ELSE IF Decodes(file_content, encoding_options[k]) THEN encoding_options[k]
  ELSE Probe(file_content, k + 1)

\* a detector that takes chardet's word from a confidence of 0.7 on
detect_encoding_inclusive(file_content) ==
  LET result == file_content.chardet
  IN  IF ~result.raises /\ result.confidence >= ConfidenceThreshold
      THEN result.encoding
      ELSE Probe(file_content, 1)

\* CSVProcessor.detect_encoding
detect_encoding(file_content) ==
  LET result == file_content.chardet
  IN  IF ~result.raises /\ result.confidence > ConfidenceThreshold
      THEN result.encoding
      ELSE Probe(file_content, 1)

\* -------------------------------------------------------- score calculator
\* The floats of the score calculator are exact fractions n/d, d > 0, in
\* lowest terms.
RECURSIVE GCD(_, _)
GCD(a, b) == IF b = 0 THEN a ELSE GCD(b, a % b)

Rat(n, d) ==
  LET g == GCD(Abs(n), d)
  IN  [n |-> n \div g, d |-> d \div g]

Whole(n) == Rat(n, 1)
\* sums and comparisons over the least common denominator
RAdd(x, y) ==
  LET g == GCD(x.d, y.d)
  IN  Rat(x.n * (y.d \div g) + y.n * (x.d \div g), (x.d \div g) * y.d)
RSub(x, y) ==
  LET g == GCD(x.d, y.d)
  IN  Rat(x.n * (y.d \div g) - y.n * (x.d \div g), (x.d \div g) * y.d)
RMul(x, y) == Rat(x.n * y.n, x.d * y.d)
\* x / y for y > 0
RDiv(x, y) == Rat(x.n * y.d, x.d * y.n)
RLt(x, y) ==
  LET g == GCD(x.d, y.d)
  IN  x.n * (y.d \div g) < y.n * (x.d \div g)
RLe(x, y) ==
  LET g == GCD(x.d, y.d)
  IN  x.n * (y.d \div g) <= y.n * (x.d \div g)

\* Python's max(x, y) and min(x, y)
RMax(x, y) == IF RLt(x, y) THEN y ELSE x
RMin(x, y) == IF RLt(y, x) THEN y ELSE x

\* round(x, 1) of x >= 0, in tenths
Round1(x) == RoundDiv(10 * x.n, x.d)

\* An entry of top_categories: what its 'categoria' is (a text without a
\* keyword, a text naming a debt or a culture, or null) and its 'valor', a
\* number or a text.
Number(v) == [number |-> TRUE, v |-> v]
Texto == [number |-> FALSE, v |-> 0]
Category(kind, valor) == [kind |-> kind, valor |-> valor]

\* financial_data: the three keys calculate_score reads
FinancialData(categories, monthly, anomalies) ==
  [top_categories |-> categories, monthly_evolution |-> monthly,
   anomalies |-> anomalies]

DefaultExpenses == 1000

\* _calculate_monthly_expenses: the bare except answers a sum that fails
calculate_monthly_expenses(data) ==
  LET categories == data.top_categories
      months_count == IF data.monthly_evolution = <<>> THEN 1
                      ELSE Len(data.monthly_evolution)
  IN  IF \E i \in 1..Len(categories) : ~categories[i].valor.number
      THEN Whole(DefaultExpenses)
      ELSE Rat(SumSeq([i \in 1..Len(categories) |-> categories[i].valor.v]),
               months_count)

\* _estimate_annual_revenue: monthly_expenses * 12 / 0.20
estimate_annual_revenue(data) ==
  RMul(calculate_monthly_expenses(data), Whole(60))

\* _estimate_current_cash: 2.5 months of expenses, times 1 + the mean of the
\* last three impacts / 100
estimate_current_cash(data) ==
  LET n == Len(data.anomalies)
      recent == SubSeq(data.anomalies, IF n > 3 THEN n - 2 ELSE 1, n)
      variation_factor ==
        IF recent = <<>> THEN Whole(1)
        ELSE RAdd(Whole(1), Rat(SumSeq(recent), Len(recent) * 100))
  IN  RMul(RMul(calculate_monthly_expenses(data), Rat(5, 2)), variation_factor)

\* the categories _calculate_debts adds up
DebtCategories(data) ==
  SelectSeq(data.top_categories, LAMBDA c : c.kind = "debt")

\* calculate_score raises: a null 'categoria' has no lower(), and a text
\* cannot be added to the debts
ScoreRaises(data) ==
  \/ \E i \in 1..Len(data.top_categories) : data.top_categories[i].kind = "null"
  \/ \E i \in 1..Len(DebtCategories(data)) :
       ~DebtCategories(data)[i].valor.number

\* _calculate_debts
calculate_debts(data) ==
  LET debts == DebtCategories(data)
      debt_total == SumSeq([i \in 1..Len(debts) |-> debts[i].valor.v])
  IN  IF debt_total = 0
      THEN RMul(calculate_monthly_expenses(data), Whole(3))
      ELSE Whole(debt_total)

\* _calculate_liquidity_score
calculate_liquidity_score(cash, monthly_expenses) ==
  LET coverage_months == RDiv(cash, RMax(monthly_expenses, Whole(1)))
  IN  IF RLe(Whole(6), coverage_months) THEN Whole(100)
      ELSE IF RLe(Whole(3), coverage_months) THEN Whole(80)
      ELSE IF RLe(Rat(3, 2), coverage_months) THEN Whole(60)
      ELSE IF RLe(Rat(1, 2), coverage_months) THEN Whole(40)
      ELSE RMax(Whole(20), RMul(coverage_months, Whole(20)))

\* _calculate_debt_score
calculate_debt_score(debts, annual_revenue) ==
  LET debt_ratio == RDiv(debts, RMax(annual_revenue, Whole(1)))
  IN  IF RLe(debt_ratio, Rat(2, 10)) THEN Whole(100)
      ELSE IF RLe(debt_ratio, Rat(4, 10)) THEN Whole(80)
      ELSE IF RLe(debt_ratio, Rat(6, 10)) THEN Whole(60)
      ELSE IF RLe(debt_ratio, Rat(8, 10)) THEN Whole(40)
      ELSE RMax(Whole(10), RSub(Whole(100), RMul(debt_ratio, Whole(100))))

\* the whole root of k between lo and hi, by bisection
RECURSIVE Root(_, _, _)
Root(k, lo, hi) ==
  IF lo = hi THEN lo
  ELSE LET mid == (lo + hi + 1) \div 2
       IN  IF mid * mid <= k THEN Root(k, mid, hi) ELSE Root(k, lo, mid - 1)

\* the root of k, exact for the k a list of months with a rational
\* deviation gives
Sqrt(k) == Root(k, 0, Min(k, 46340))

\* np.std(values) / max(np.mean(values), 1): with s the sum and q the sum
\* of squares of the n values, sqrt(n q - s^2) / max(s, n)
CoefficientOfVariation(values) ==
  LET n == Len(values)
      s == SumSeq(values)
      q == SumSeq([i \in 1..n |-> values[i] * values[i]])
  IN  Rat(Sqrt(n * q - s * s), IF s > n THEN s ELSE n)

\* _calculate_efficiency_score
calculate_efficiency_score(data) ==
  LET diversification_score == Min(Len(data.top_categories), 10) * 5
      consistency_score ==
        IF Len(data.monthly_evolution) >= 3
        THEN RMax(Whole(0),
                  RSub(Whole(50),
                       RMul(CoefficientOfVariation(data.monthly_evolution),
                            Whole(100))))
        ELSE Whole(30)
  IN  RMin(Whole(100), RAdd(Whole(diversification_score), consistency_score))

\* _detect_culture_type: the culture of the first category that names one
RECURSIVE detect_culture_type(_)
detect_culture_type(categories) ==
  IF categories = <<>> THEN "geral"
  ELSE IF Head(categories).kind \in {"soja", "milho", "cafe"}
  THEN Head(categories).kind
  ELSE detect_culture_type(Tail(categories))

\* self.culture_factors
PeakMonths(culture_type) ==
  IF culture_type = "soja" THEN {2, 3, 4}
  ELSE IF culture_type = "milho" THEN {6, 7, 8}
  ELSE IF culture_type = "cafe" THEN {5, 6, 7}
  ELSE {}

Adjustment(culture_type) ==
  IF culture_type = "soja" THEN Rat(110, 100)
  ELSE IF culture_type = "milho" THEN Rat(105, 100)
  ELSE IF culture_type = "cafe" THEN Rat(115, 100)
  ELSE Whole(1)

\* _apply_seasonal_adjustment in the month the clock shows
apply_seasonal_adjustment(score, culture_type, current_month) ==
  IF current_month \in PeakMonths(culture_type)
  THEN RMul(score, Adjustment(culture_type))
  ELSE score

\* a final score that is the adjusted one as it is
Unclamped(seasonal_adjustment) == seasonal_adjustment

\* min(100, max(0, seasonal_adjustment))
Clamp(seasonal_adjustment) ==
  RMin(Whole(100), RMax(Whole(0), seasonal_adjustment))

\* the weighted sum of calculate_score
WeightedSum(liquidez_score, endividamento_score, eficiencia_score) ==
  RAdd(RAdd(RMul(liquidez_score, Rat(30, 100)),
            RMul(endividamento_score, Rat(30, 100))),
       RMul(eficiencia_score, Rat(40, 100)))

\* calculate_score: its locals and the scores of the dictionary it returns,
\* which are rounded to one decimal and stated here in tenths
\* FinancialHealthScoreCalculator._get_score_level
get_score_level(score) ==
  IF RLe(Whole(80), score) THEN "Excelente"
  ELSE IF RLe(Whole(60), score) THEN "Bom"
  ELSE IF RLe(Whole(40), score) THEN "Regular"
  ELSE "Precisa Atenção"

calculate_score(data, current_month) ==
  LET gastos_mensais == calculate_monthly_expenses(data)
      liquidez_score ==
        calculate_liquidity_score(estimate_current_cash(data), gastos_mensais)
      endividamento_score ==
        calculate_debt_score(calculate_debts(data), estimate_annual_revenue(data))
      eficiencia_score == calculate_efficiency_score(data)
      score_total ==
        WeightedSum(liquidez_score, endividamento_score, eficiencia_score)
      culture_type == detect_culture_type(data.top_categories)
      seasonal_adjustment ==
        apply_seasonal_adjustment(score_total, culture_type, current_month)
      score_final == Clamp(seasonal_adjustment)
  IN  [score_total |-> Round1(score_final),
       nivel |-> get_score_level(score_final),
       liquidez |-> Round1(liquidez_score),
       endividamento |-> Round1(endividamento_score),
       eficiencia |-> Round1(eficiencia_score),
       cultura_detectada |-> culture_type,
       liquidez_score |-> liquidez_score,
       endividamento_score |-> endividamento_score,
       eficiencia_score |-> eficiencia_score,
       seasonal_adjustment |-> seasonal_adjustment]

\* ------------------------------------------------------ scenario simulator
\* The floats of the simulator are exact fractions; 1/0 is float('inf').
Infinity == [n |-> 1, d |-> 0]

\* FinancialScenarioSimulator.__init__: the four tables of an instance
rates ==
  [cdi |-> Rat(105, 1000), inflation |-> Rat(45, 1000),
   rural_financing |-> Rat(8, 100), commercial_rate |-> Rat(14, 100),
   depreciation_equipment |-> Rat(10, 100),
   depreciation_vehicles |-> Rat(20, 100)]

taxes ==
  [rural_producer |-> Rat(15, 1000), clt_charges |-> Rat(68, 100),
   itr |-> Rat(2, 1000)]

seasonality ==
  [month \in 1..12 |->
     Rat(<<7, 8, 9, 10, 11, 13, 14, 12, 9, 8, 7, 6>>[month], 10)]

Equipment(name, cost, monthly_savings, useful_life, maintenance_cost, depreciation_rate) ==
  [name |-> name, cost |-> Whole(cost),
   monthly_savings |-> Whole(monthly_savings), useful_life |-> useful_life,
   maintenance_cost |-> Whole(maintenance_cost),
   depreciation_rate |-> depreciation_rate]

predefined_scenarios ==
  [tractor_new |->
     Equipment("Trator Novo (120cv)", 450000, 8000, 10, 2500, Rat(10, 100)),
   tractor_used |->
     Equipment("Trator Usado (120cv)", 250000, 6000, 6, 4000, Rat(15, 100)),
   irrigation_system |->
     Equipment("Sistema Irrigação (10ha)", 120000, 3500, 15, 800,
               Rat(67, 1000)),
   grain_silo |->
     Equipment("Silo Graneleiro (500t)", 180000, 4200, 20, 600, Rat(5, 100)),
   worker_clt |->
     [name |-> "Funcionário CLT", monthly_cost |-> Whole(3500),
      charges_multiplier |-> Rat(168, 100),
      productivity_gain |-> Whole(2800), type |-> "recurring"],
   worker_daily |->
     [name |-> "Diarista", daily_cost |-> Whole(120), days_per_month |-> 20,
      productivity_gain |-> Whole(2200), type |-> "variable"]]

FinancialScenarioSimulator ==
  [rates |-> rates, taxes |-> taxes, seasonality |-> seasonality,
   predefined_scenarios |-> predefined_scenarios]

\* dict.get(key, default)
Get(d, key, default) == IF key \in DOMAIN d THEN d[key] ELSE default

\* what a call leaves: the instance, and what it returned or raised
Returned(self, out) == [self |-> self, raised |-> "", out |-> Some(out)]
Raised(self, exc) == [self |-> self, raised |-> exc, out |-> None]

RECURSIVE RSum(_, _)
RSum(flows, k) == IF k = 0 THEN Whole(0) ELSE RAdd(RSum(flows, k - 1), flows[k])

\* the twelve entries of monthly_projections: the flow of each month and the
\* flow accumulated from start
Projections(self, start, flows) ==
  [month \in 1..12 |->
     [month |-> month,
      monthly_flow |-> flows[month],
      accumulated_flow |-> RAdd(start, RSum(flows, month)),
      seasonal_factor |-> self.seasonality[month]]]

\* _calculate_cash_purchase
calculate_cash_purchase(self, equipment, current_flow) ==
  LET total_cost == equipment.cost
      monthly_net_benefit ==
        RSub(equipment.monthly_savings, equipment.maintenance_cost)
      flows == [month \in 1..12 |->
                  RAdd(RMul(current_flow, self.seasonality[month]),
                       monthly_net_benefit)]
  IN  [method |-> "cash",
       total_investment |-> total_cost,
       monthly_net_benefit |-> monthly_net_benefit,
       immediate_impact |-> RSub(Whole(0), total_cost),
       monthly_projections |->
         Projections(self, RSub(current_flow, total_cost), flows),
       payback_months |->
         IF RLt(Whole(0), monthly_net_benefit)
         THEN RDiv(total_cost, monthly_net_benefit) ELSE Infinity,
       first_year_savings |-> RSum(flows, 12),
       liquidity_impact |-> "high"]

\* (1 + rate) ** months, to eight decimals, by repeated squaring
Scale8 == 100000000

\* a * b of two numbers of eight decimals, multiplied in limbs of 10^4
MulScaled(a, b) ==
  LET a1 == a \div 10000
      a0 == a % 10000
      b1 == b \div 10000
      b0 == b % 10000
      mid == a1 * b0 + a0 * b1
  IN  a1 * b1 + mid \div 10000
      + RoundDiv((mid % 10000) * 10000 + a0 * b0, Scale8)

RECURSIVE Compound(_, _)
Compound(rate, months) ==
  IF months = 0 THEN Scale8
  ELSE IF months % 2 = 0
  THEN LET half == Compound(rate, months \div 2)
       IN  MulScaled(half, half)
  ELSE MulScaled(Compound(rate, months - 1),
                 Scale8 + RoundDiv(Scale8 * rate.n, rate.d))

\* a \div b followed by k decimals of the quotient
RECURSIVE LongDiv(_, _, _)
LongDiv(a, b, k) ==
  IF k = 0 THEN [q |-> a \div b, r |-> a % b]
  ELSE LET p == LongDiv(a, b, k - 1)
       IN  [q |-> 10 * p.q + (10 * p.r) \div b, r |-> (10 * p.r) % b]

\* the instalment of the Price table, to the cent:
\* amount * rate * (1 + rate)^months / ((1 + rate)^months - 1)
Price(amount, rate, months) ==
  LET growth == Compound(rate, months)
      factor == LongDiv(growth, growth - Scale8, 6).q
      base == RMul(amount, rate)
      x == ImpMul(base.n, factor)
  IN  Rat(RoundDiv(x.hi * 10000 + x.lo \div 100, 100 * base.d), 100)

FinancingMonths == 60

\* a financing with a down payment of 10 %
calculate_financing_tenth(self, equipment, current_flow) ==
  LET total_cost == equipment.cost
      down_payment == RMul(total_cost, Rat(10, 100))
      financed_amount == RSub(total_cost, RMul(total_cost, Rat(20, 100)))
      months == FinancingMonths
      monthly_rate == RDiv(self.rates.rural_financing, Whole(12))
      monthly_payment == Price(financed_amount, monthly_rate, months)
      monthly_net_benefit ==
        RSub(RSub(equipment.monthly_savings, equipment.maintenance_cost),
             monthly_payment)
      flows == [month \in 1..12 |->
                  RAdd(RMul(current_flow, self.seasonality[month]),
                       monthly_net_benefit)]
  IN  [method |-> "financing",
       total_investment |-> total_cost,
       down_payment |-> down_payment,
       financed_amount |-> financed_amount,
       monthly_payment |-> monthly_payment,
       monthly_net_benefit |-> monthly_net_benefit,
       monthly_projections |->
         Projections(self, RSub(current_flow, down_payment), flows),
       total_interest |->
         RSub(RMul(monthly_payment, Whole(months)), financed_amount),
       financing_months |-> months,
       liquidity_impact |-> "medium"]

\* _calculate_financing
calculate_financing(self, equipment, current_flow) ==
  LET total_cost == equipment.cost
      down_payment == RMul(total_cost, Rat(20, 100))
      financed_amount == RSub(total_cost, down_payment)
      months == FinancingMonths
      monthly_rate == RDiv(self.rates.rural_financing, Whole(12))
      monthly_payment == Price(financed_amount, monthly_rate, months)
      monthly_net_benefit ==
        RSub(RSub(equipment.monthly_savings, equipment.maintenance_cost),
             monthly_payment)
      flows == [month \in 1..12 |->
                  RAdd(RMul(current_flow, self.seasonality[month]),
                       monthly_net_benefit)]
  IN  [method |-> "financing",
       total_investment |-> total_cost,
       down_payment |-> down_payment,
       financed_amount |-> financed_amount,
       monthly_payment |-> monthly_payment,
       monthly_net_benefit |-> monthly_net_benefit,
       monthly_projections |->
         Projections(self, RSub(current_flow, down_payment), flows),
       total_interest |->
         RSub(RMul(monthly_payment, Whole(months)), financed_amount),
       financing_months |-> months,
       liquidity_impact |-> "medium"]

\* _calculate_consortium: the twelve months projected all come before the
\* month of contemplation
calculate_consortium(self, equipment, current_flow) ==
  LET total_cost == equipment.cost
      months == 60
      admin_fee == RMul(total_cost, Rat(12, 100))
      total_paid == RAdd(total_cost, admin_fee)
      monthly_payment == RDiv(total_paid, Whole(months))
      contemplation_month == 30
      flows == [month \in 1..12 |->
                  IF month < contemplation_month
                  THEN RSub(RMul(current_flow, self.seasonality[month]),
                            monthly_payment)
                  ELSE RAdd(RMul(current_flow, self.seasonality[month]),
                            RSub(RSub(equipment.monthly_savings,
                                      equipment.maintenance_cost),
                                 monthly_payment))]
  IN  [method |-> "consortium",
       total_investment |-> total_cost,
       total_paid |-> total_paid,
       admin_fee |-> admin_fee,
       monthly_payment |-> monthly_payment,
       contemplation_month |-> contemplation_month,
       monthly_projections |-> Projections(self, current_flow, flows),
       liquidity_impact |-> "low"]

\* the score _get_payment_recommendation gives a payment scenario
PaymentScore(scenario) ==
  LET monthly_benefit == Get(scenario, "monthly_net_benefit", Whole(0))
      payback_months == Get(scenario, "payback_months", Infinity)
  IN  (IF scenario.liquidity_impact = "low" THEN 30
       ELSE IF scenario.liquidity_impact = "medium" THEN 20 ELSE 10)
      + (IF RLt(Whole(3000), monthly_benefit) THEN 25
         ELSE IF RLt(Whole(1000), monthly_benefit) THEN 15 ELSE 5)
      + (IF RLt(payback_months, Whole(24)) THEN 25
         ELSE IF RLt(payback_months, Whole(48)) THEN 15 ELSE 5)

PaymentMethods == <<"cash", "financing", "consortium">>

\* _get_payment_recommendation: max() answers the first of the best
get_payment_recommendation(scenarios) ==
  LET score == [i \in 1..3 |-> PaymentScore(scenarios[PaymentMethods[i]])]
      best == CHOOSE i \in 1..3 :
                /\ \A j \in 1..3 : score[j] <= score[i]
                /\ \A j \in 1..(i - 1) : score[j] < score[i]
      others == SelectSeq(<<1, 2, 3>>, LAMBDA j : j # best)
  IN  [best_option |-> PaymentMethods[best],
       score |-> score[best],
       alternatives |->
         [k \in 1..2 |-> [method |-> PaymentMethods[others[k]],
                          score |-> score[others[k]]]],
       reasoning |->
         [method |-> PaymentMethods[best],
          figure |-> IF PaymentMethods[best] = "cash"
                     THEN scenarios.cash.payback_months
                     ELSE scenarios[PaymentMethods[best]].monthly_payment]]

\* min(proj['accumulated_flow'] for proj in monthly_projections)
MinFlow(projections) ==
  LET i == CHOOSE k \in 1..Len(projections) :
             \A j \in 1..Len(projections) :
               RLe(projections[k].accumulated_flow,
                   projections[j].accumulated_flow)
  IN  projections[i].accumulated_flow

\* _analyze_risk
analyze_risk(scenario, current_flow) ==
  LET min_flow == MinFlow(scenario.monthly_projections)
      severe == RLt(min_flow, RMul(current_flow, Rat(3, 10)))
      moderate == ~severe /\ RLt(min_flow, RMul(current_flow, Rat(6, 10)))
      long == /\ "payback_months" \in DOMAIN scenario
              /\ RLt(Whole(48), scenario.payback_months)
  IN  [risk_level |-> IF severe \/ long THEN "high"
                      ELSE IF moderate THEN "medium" ELSE "low",
       risk_factors |->
         (IF severe THEN <<"Impacto severo na liquidez">>
          ELSE IF moderate THEN <<"Impacto moderado na liquidez">> ELSE <<>>)
         \o (IF long THEN <<"Payback longo (>4 anos)">> ELSE <<>>),
       min_cash_flow |-> min_flow,
       liquidity_cushion |-> IF RLt(Whole(0), current_flow)
                             THEN RDiv(min_flow, current_flow) ELSE Whole(0)]

DefaultFlow == 15000

\* _simulate_equipment_purchase: an entry without a cost raises KeyError
simulate_equipment_purchase(self, config) ==
  LET equipment == Get(config, "equipment", "tractor_new")
      current_cash_flow == Whole(Get(config, "current_monthly_flow", DefaultFlow))
      equip_data == Get(self.predefined_scenarios, equipment,
                        self.predefined_scenarios.tractor_new)
  IN  IF "cost" \notin DOMAIN equip_data THEN Raised(self, "KeyError")
      ELSE
        LET payment_scenarios ==
              [cash |-> calculate_cash_purchase(self, equip_data,
                                                current_cash_flow),
               financing |-> calculate_financing(self, equip_data,
                                                 current_cash_flow),
               consortium |-> calculate_consortium(self, equip_data,
                                                   current_cash_flow)]
            recommendation == get_payment_recommendation(payment_scenarios)
            chosen == payment_scenarios[recommendation.best_option]
        IN  Returned(self,
              [equipment |-> equip_data,
               payment_scenarios |-> payment_scenarios,
               recommendation |-> recommendation,
               timeline |-> Take(chosen.monthly_projections, 12),
               risk_analysis |-> analyze_risk(chosen, current_cash_flow)])

\* _calculate_clt_scenario
calculate_clt_scenario(self, worker_data, current_flow) ==
  LET base_salary == worker_data.monthly_cost
      positions == Whole(worker_data.positions)
      total_monthly_cost ==
        RMul(RMul(base_salary, worker_data.charges_multiplier), positions)
      total_productivity_gain == RMul(worker_data.productivity_gain, positions)
      monthly_net_benefit == RSub(total_productivity_gain, total_monthly_cost)
      annual_extra_costs == RMul(RMul(base_salary, Rat(233, 100)), positions)
      flows == [month \in 1..12 |->
                  RSub(RAdd(RMul(current_flow, self.seasonality[month]),
                            monthly_net_benefit),
                       IF month = 12 THEN annual_extra_costs ELSE Whole(0))]
  IN  [employment_type |-> "clt",
       base_salary |-> base_salary,
       total_monthly_cost |-> total_monthly_cost,
       productivity_gain |-> total_productivity_gain,
       monthly_net_benefit |-> monthly_net_benefit,
       annual_extra_costs |-> annual_extra_costs,
       monthly_projections |-> Projections(self, current_flow, flows),
       stability |-> "high",
       legal_compliance |-> "full"]

\* _calculate_daily_worker_scenario
calculate_daily_worker_scenario(self, worker_data, current_flow) ==
  LET daily_cost == worker_data.daily_cost
      days_per_month == Whole(worker_data.days_per_month)
      positions == Whole(worker_data.positions)
      monthly_cost == RMul(RMul(daily_cost, days_per_month), positions)
      total_productivity_gain == RMul(worker_data.productivity_gain, positions)
      flows == [month \in 1..12 |->
                  LET seasonal_factor == self.seasonality[month]
                      adjusted_cost ==
                        RMul(RMul(daily_cost,
                                  RMul(days_per_month, seasonal_factor)),
                             positions)
                  IN  RAdd(RMul(current_flow, seasonal_factor),
                           RSub(RMul(total_productivity_gain, seasonal_factor),
                                adjusted_cost))]
  IN  [employment_type |-> "daily",
       daily_cost |-> daily_cost,
       average_days_month |-> worker_data.days_per_month,
       monthly_cost |-> monthly_cost,
       productivity_gain |-> total_productivity_gain,
       monthly_net_benefit |-> RSub(total_productivity_gain, monthly_cost),
       monthly_projections |-> Projections(self, current_flow, flows),
       flexibility |-> "high",
       legal_compliance |-> "basic"]

\* _calculate_outsourced_scenario
calculate_outsourced_scenario(self, monthly_cost, current_flow, positions) ==
  LET productivity_gain == Whole(2500 * positions)
      monthly_net_benefit == RSub(productivity_gain, monthly_cost)
      flows == [month \in 1..12 |->
                  RAdd(RMul(current_flow, self.seasonality[month]),
                       monthly_net_benefit)]
  IN  [employment_type |-> "outsourced",
       monthly_cost |-> monthly_cost,
       productivity_gain |-> productivity_gain,
       monthly_net_benefit |-> monthly_net_benefit,
       monthly_projections |-> Projections(self, current_flow, flows),
       legal_responsibility |-> "low",
       management_effort |-> "low"]

\* _get_hiring_recommendation
get_hiring_recommendation(scenarios) ==
  [best_option |->
     IF RLt(RMul(scenarios.clt.monthly_net_benefit, Rat(12, 10)),
            scenarios.daily.monthly_net_benefit)
     THEN "daily" ELSE "clt"]

EmploymentTypes == <<"clt", "daily", "outsourced">>

\* _compare_employment_costs
compare_employment_costs(scenarios) ==
  [emp_type \in { EmploymentTypes[i] : i \in 1..3 } |->
     LET scenario == scenarios[emp_type]
         monthly_cost ==
           Get(scenario, "monthly_cost",
               Get(scenario, "total_monthly_cost", Whole(0)))
         annual_cost ==
           RAdd(RMul(monthly_cost, Whole(12)),
                IF emp_type = "clt" /\ "annual_extra_costs" \in DOMAIN scenario
                THEN scenario.annual_extra_costs ELSE Whole(0))
         annual_productivity ==
           RMul(Get(scenario, "productivity_gain", Whole(0)), Whole(12))
     IN  [annual_cost |-> annual_cost,
          annual_productivity |-> annual_productivity,
          cost_per_productivity |->
            IF RLt(Whole(0), annual_productivity)
            THEN RDiv(annual_cost, annual_productivity) ELSE Whole(0)]]

\* d.copy() followed by d['positions'] = positions: the items of d and one
\* more, in a dictionary of its own
WithPositions(d, positions) == [positions |-> positions] @@ d

\* _simulate_hiring: the positions are written into copies of the entries
simulate_hiring(self, config) ==
  LET current_cash_flow == Whole(Get(config, "current_monthly_flow", DefaultFlow))
      positions == Get(config, "positions", 1)
      clt_data == WithPositions(self.predefined_scenarios.worker_clt, positions)
      daily_data ==
        WithPositions(self.predefined_scenarios.worker_daily, positions)
      outsourced_cost ==
        RMul(RMul(clt_data.monthly_cost, Rat(13, 10)), Whole(positions))
      scenarios ==
        [clt |-> calculate_clt_scenario(self, clt_data, current_cash_flow),
         daily |-> calculate_daily_worker_scenario(self, daily_data,
                                                   current_cash_flow),
         outsourced |-> calculate_outsourced_scenario(
                          self, outsourced_cost, current_cash_flow, positions)]
      recommendation == get_hiring_recommendation(scenarios)
  IN  Returned(self,
        [employment_scenarios |-> scenarios,
         recommendation |-> recommendation,
         cost_comparison |-> compare_employment_costs(scenarios),
         timeline |->
           Take(scenarios[recommendation.best_option].monthly_projections, 12)])

\* _calculate_investment_roi
calculate_investment_roi(investment, current_flow) ==
  LET annual_net_benefit ==
        RMul(RSub(investment.monthly_savings, investment.maintenance_cost),
             Whole(12))
      total_benefits == RMul(annual_net_benefit, Whole(investment.useful_life))
  IN  [initial_investment |-> investment.cost,
       annual_net_benefit |-> annual_net_benefit,
       total_benefits |-> total_benefits,
       roi_percentage |->
         RMul(RDiv(RSub(total_benefits, investment.cost), investment.cost),
              Whole(100)),
       useful_life_years |-> investment.useful_life]

\* _calculate_payback
calculate_payback(investment) ==
  LET monthly_net ==
        RSub(investment.monthly_savings, investment.maintenance_cost)
      payback_months == IF RLt(Whole(0), monthly_net)
                        THEN RDiv(investment.cost, monthly_net) ELSE Infinity
  IN  [payback_months |-> payback_months,
       payback_years |-> RDiv(payback_months, Whole(12)),
       monthly_net_benefit |-> monthly_net,
       breakeven_analysis |-> IF RLt(payback_months, Whole(60))
                              THEN "positive" ELSE "questionable"]

\* _assess_investment_risk
assess_investment_risk(investment, current_flow) ==
  LET roi == calculate_investment_roi(investment, current_flow).roi_percentage
  IN  [risk_level |-> IF RLt(roi, Whole(10)) THEN "high"
                      ELSE IF RLt(roi, Whole(20)) THEN "medium" ELSE "low",
       roi_risk |-> IF RLt(Whole(15), roi) THEN "low" ELSE "high",
       market_risk |-> "medium",
       technology_risk |-> "low"]

\* _generate_investment_timeline
generate_investment_timeline(self, investment) ==
  LET monthly_net ==
        RSub(investment.monthly_savings, investment.maintenance_cost)
  IN  [month \in 1..12 |->
        [month |-> month,
         benefit |-> RMul(monthly_net, self.seasonality[month]),
         seasonal_factor |-> self.seasonality[month]]]

\* a sensitivity analysis that scales the savings of the entry it is given,
\* which is the entry of the table
perform_sensitivity_analysis_inplace(self, key) ==
  LET investment == self.predefined_scenarios[key]
      base_roi ==
        calculate_investment_roi(investment, Whole(DefaultFlow)).roi_percentage
      pessimistic ==
        [investment EXCEPT !.monthly_savings = RMul(@, Rat(8, 10))]
      optimistic ==
        [pessimistic EXCEPT !.monthly_savings = RMul(@, Rat(12, 10))]
      low == calculate_investment_roi(pessimistic, Whole(DefaultFlow)).roi_percentage
      high == calculate_investment_roi(optimistic, Whole(DefaultFlow)).roi_percentage
  IN  Returned([self EXCEPT !.predefined_scenarios[key] = optimistic],
        [base_scenario |-> base_roi,
         pessimistic_scenario |-> low,
         optimistic_scenario |-> high,
         sensitivity_range |-> RSub(high, low)])

\* _perform_sensitivity_analysis, of the entry of the table under key: the
\* savings are scaled in copies of the entry
perform_sensitivity_analysis(self, key) ==
  LET investment == self.predefined_scenarios[key]
      base_roi ==
        calculate_investment_roi(investment, Whole(DefaultFlow)).roi_percentage
      pessimistic ==
        [investment EXCEPT !.monthly_savings = RMul(@, Rat(8, 10))]
      optimistic ==
        [investment EXCEPT !.monthly_savings = RMul(@, Rat(12, 10))]
      low == calculate_investment_roi(pessimistic, Whole(DefaultFlow)).roi_percentage
      high == calculate_investment_roi(optimistic, Whole(DefaultFlow)).roi_percentage
  IN  Returned(self,
        [base_scenario |-> base_roi,
         pessimistic_scenario |-> low,
         optimistic_scenario |-> high,
         sensitivity_range |-> RSub(high, low)])

\* _simulate_investment: an entry without a cost raises KeyError
simulate_investment(self, config) ==
  LET investment_type == Get(config, "investment", "irrigation_system")
      current_cash_flow == Whole(Get(config, "current_monthly_flow", DefaultFlow))
      key == IF investment_type \in DOMAIN self.predefined_scenarios
             THEN investment_type ELSE "irrigation_system"
      investment_data == self.predefined_scenarios[key]
  IN  IF "cost" \notin DOMAIN investment_data THEN Raised(self, "KeyError")
      ELSE
        LET sensitivity == perform_sensitivity_analysis(self, key)
        IN  Returned(sensitivity.self,
              [investment |-> investment_data,
               roi_analysis |->
                 calculate_investment_roi(investment_data, current_cash_flow),
               payback_analysis |-> calculate_payback(investment_data),
               risk_assessment |->
                 assess_investment_risk(investment_data, current_cash_flow),
               timeline |-> generate_investment_timeline(self, investment_data),
               sensitivity_analysis |-> sensitivity.out[1]])

\* _simulate_custom_scenario
simulate_custom_scenario(self, config) ==
  Returned(self, [message |-> "Cenário customizado em desenvolvimento",
                  config |-> config])

\* FinancialScenarioSimulator.simulate_scenario
simulate_scenario(self, scenario_config) ==
  LET scenario_type == Get(scenario_config, "type", "custom")
  IN  IF scenario_type = "equipment_purchase"
      THEN simulate_equipment_purchase(self, scenario_config)
      ELSE IF scenario_type = "hiring"
      THEN simulate_hiring(self, scenario_config)
      ELSE IF scenario_type = "investment"
      THEN simulate_investment(self, scenario_config)
      ELSE simulate_custom_scenario(self, scenario_config)

\* ----------------------------------------------------------------- inputs
\* An uploaded file: its name, its length in bytes, whether it decodes and
\* parses as delimited text, whether the header has the required columns,
\* and its rows.
File(filename, size, readable, columns, rows) ==
  [filename |-> filename, size |-> size, readable |-> readable,
   columns |-> columns, rows |-> rows]

NoFile == File("", 0, FALSE, FALSE, <<>>)

\* the text after the last dot of the name, lower-cased, with a dot in front
Extension(filename) ==
  IF filename \in {"dados.csv", "DADOS.CSV", "csv"} THEN ".csv" ELSE ".txt"

ALLOWED_EXTENSIONS == {".csv"}

Files ==
  { File("dados.csv", 64 * (1 + Len(l)), TRUE, TRUE, l) : l \in Ledgers }
  \cup { File("", 64, TRUE, TRUE, <<>>),
         File("dados.txt", 64, TRUE, TRUE, <<>>),
         File("DADOS.CSV", 0, TRUE, TRUE, <<>>),
         File("dados.csv", MAX_FILE_SIZE, TRUE, TRUE, <<>>),
         File("dados.csv", MAX_FILE_SIZE + 1, TRUE, TRUE, <<>>),
         File("dados.csv", 64, FALSE, TRUE, <<>>),
         File("dados.csv", 64, TRUE, FALSE, <<>>) }

\* The body of a POST /enrich: whether its entries fit the TopCategory and
\* Alert schemas, and the top categories it names.
TopCategory(nome, valor, percentual, variacao_mensal) ==
  [nome |-> Txt(nome), valor |-> valor, percentual |-> Some(percentual),
   transacoes |-> 1, media_por_transacao |-> valor,
   variacao_mensal |-> variacao_mensal]

EnrichData ==
  { [valid |-> FALSE, top_categorias |-> <<>>],
    [valid |-> TRUE, top_categorias |-> <<>>],
    [valid |-> TRUE, top_categorias |->
       << TopCategory("COMBUSTÍVEL", 400000, 4000, Some(2500)),
          TopCategory("NUTRIÇÃO", 350000, 3500, None),
          TopCategory("ENERGIA", 200000, 2000, Some(-2038)),
          TopCategory("FRETE", 50000, 500, Some(9000)) >>] }

NoData == [valid |-> FALSE, top_categorias |-> <<>>]

Requests ==
  { [endpoint |-> "upload", file |-> f, data |-> NoData] : f \in Files }
  \cup { [endpoint |-> "enrich", file |-> NoFile, data |-> d] : d \in EnrichData }

\* the impact the service states for the entry at position i
ItemImpact(i) == IF i % 2 = 1 THEN None ELSE Some(Imp(250 * i, 0))

Insight(i) == Item(i, "record", Txt("Geral"), ItemImpact(i))

\* lists of k insights, all records or with one entry that is not
InsightLists ==
  UNION { { [i \in 1..k |-> Insight(i)] }
          \cup { [i \in 1..k |->
                   IF i = p THEN Item(i, shape, Txt("Geral"), ItemImpact(i))
                   ELSE Insight(i)]
                 : p \in 1..k, shape \in {"text", "badfield"} }
          : k \in 0..MaxInsights }

\* replies to a request of process_csv, which reads insights_principais and
\* _fallback only
UploadReplies ==
  { Reply(ListOf(l), Missing, Missing, Missing, FALSE) : l \in InsightLists }
  \cup { Reply(Missing, Missing, Missing, Missing, FALSE),
         Reply(StrOf(<<Character(1), Character(2)>>), Missing, Missing, Missing, FALSE),
         Reply(Num, Missing, Missing, Missing, FALSE),
         Reply(ListOf(<<Insight(1)>>), Missing, Missing, Missing, TRUE),
         Reply(Missing, Missing, Missing, Missing, TRUE) }

\* a list field of n entries, or none
OpaqueList(n) == ListOf([i \in 1..n |-> Opaque(i)])

FieldValues == {Missing} \cup { OpaqueList(n) : n \in 0..MaxListLen }

\* replies to a request of POST /enrich, which returns all of the result
EnrichReplies ==
  { Reply(ip, ac, oe, rs, FALSE) :
      ip \in FieldValues, ac \in FieldValues,
      oe \in FieldValues, rs \in FieldValues }
  \cup { Reply(StrOf([i \in 1..MaxListLen |-> Character(i)]),
               Missing, Missing, Missing, FALSE),
         Reply(Missing, Missing, StrOf([i \in 1..MaxListLen |-> Character(i)]),
               Missing, FALSE),
         Reply(Num, Missing, Missing, Missing, FALSE),
         Reply(Missing, Missing, Missing, Num, FALSE),
         Reply(Missing, Missing, Missing, Missing, TRUE),
         Reply(OpaqueList(MaxListLen), OpaqueList(MaxListLen),
               OpaqueList(MaxListLen), OpaqueList(MaxListLen), TRUE) }

Replies(endpoint) ==
  IF endpoint = "upload" THEN UploadReplies ELSE EnrichReplies

\* what makes a call of the service fail before a reply is validated
FailureKinds == {"TimeoutError", "JSONDecodeError", "APIError"}

\* ------------------------------------------------------------------ state
VARIABLES
  request,          \* the request being served
  pc,               \* where its handler stands
  attempt,          \* the loop variable of analyze_financial_data
  e,                \* the exception bound in its except clause
  log,              \* the service calls, failures, sleeps and returns so far
  content,          \* the reply the last call of the service returned
  insights,         \* what analyze_financial_data returned
  df_saidas,        \* locals of process_csv ...
  total_gasto,
  num_transacoes,
  periodo,
  top_categorias,   \* (and top_categories of enrich_analysis)
  evolucao_mensal,
  alertas,
  resumo,
  raised,           \* the exception process_csv raised
  response,         \* the HTTP response
  run,              \* which run of a repeated request this is
  pinned,           \* the outcomes a pinned service gives, attempt by attempt
  first,            \* what the first run of a repeated request returned
  task,             \* which of two requests in flight the event loop runs
  suspended,        \* the frame of the request that waits at an await
  file_content,     \* the bytes process_csv was called with
  encoding,         \* the local encoding of process_csv
  financial_data,   \* the body of POST /financial-health-score
  score_data,       \* what calculate_score returned
  simulator,        \* the tables of a FinancialScenarioSimulator
  calls,            \* the configurations simulate_scenario was called with
  simulation        \* what its last call returned or raised

vars ==
  <<request, pc, attempt, e, log, content, insights, df_saidas, total_gasto,
    num_transacoes, periodo, top_categorias, evolucao_mensal, alertas,
    resumo, raised, response, clock, run, pinned, first, task, suspended,
    file_content, encoding, financial_data, score_data, simulator, calls,
    simulation>>

\* what no step of a single request changes
sim == <<simulator, calls, simulation>>

session ==
  <<clock, run, pinned, first, task, suspended, file_content, encoding,
    financial_data, score_data, sim>>

analyzer == <<attempt, e, log, content, insights>>

locals ==
  <<df_saidas, total_gasto, num_transacoes, periodo, top_categorias,
    evolucao_mensal, alertas, resumo>>

Event(ev, n) == [ev |-> ev, n |-> n]

\* bytes whose decoding the model of the pipeline states by file.readable
NoBytes == Bytes(TRUE, TRUE, TRUE, DetectRaises)

\* the empty dictionary
NoFinancialData == FinancialData(<<>>, <<>>, <<>>)

\* a call of a handler starts with nothing computed
Fresh ==
  /\ pc = "start"
  /\ attempt = 0
  /\ e = ""
  /\ log = <<>>
  /\ content = None
  /\ insights = None
  /\ df_saidas = <<>>
  /\ total_gasto = 0
  /\ num_transacoes = 0
  /\ periodo = None
  /\ top_categorias = <<>>
  /\ evolucao_mensal = <<>>
  /\ alertas = <<>>
  /\ resumo = None
  /\ raised = ""
  /\ response = None
  /\ simulator = FinancialScenarioSimulator
  /\ calls = <<>>
  /\ simulation = None

Init ==
  /\ request \in Requests
  /\ clock \in Months
  /\ run = 1
  /\ pinned = <<>>
  /\ first = None
  /\ task = 1
  /\ suspended = None
  /\ file_content = NoBytes
  /\ encoding = ""
  /\ financial_data = NoFinancialData
  /\ score_data = None
  /\ Fresh

\* ----------------------------------------------------------- upload route
HTTPException(status_code, detail) ==
  [status |-> status_code, success |-> FALSE, detail |-> detail,
   analysis |-> None, insights |-> None, enrichment_type |-> ""]

\* JSONResponse(status_code, ErrorResponse(error, ...))
ErrorResponse(status_code, error) ==
  [status |-> status_code, success |-> FALSE, detail |-> error,
   analysis |-> None, insights |-> None, enrichment_type |-> ""]

\* the object upload_csv returns; its rendering as JSON by the framework is
\* outside this model
UploadResponse(analysis) ==
  [status |-> 200, success |-> TRUE, detail |-> "Arquivo processado com sucesso",
   analysis |-> Some(analysis), insights |-> None, enrichment_type |-> ""]

\* the checks of upload_csv on the size read, inside its try block: the
\* except clause catches the HTTPException raised there as well
ReadError(contents_size) ==
  IF contents_size > MAX_FILE_SIZE \/ contents_size = 0
  THEN Some(HTTPException(400, "Erro ao ler arquivo"))
  ELSE None

\* upload_csv up to the call of process_csv
UploadCsv ==
  /\ pc = "start"
  /\ request.endpoint = "upload"
  /\ LET file == request.file
         rejected ==
           IF file.filename = ""
           THEN Some(HTTPException(400, "Arquivo sem nome"))
           ELSE IF Extension(file.filename) \notin ALLOWED_EXTENSIONS
           THEN Some(HTTPException(400, "Tipo de arquivo não permitido"))
           ELSE ReadError(file.size)
     IN  IF IsNone(rejected)
         THEN /\ pc' = "process"
              /\ response' = None
         ELSE /\ pc' = "done"
              /\ response' = rejected
  /\ UNCHANGED <<request, session, analyzer, locals, raised>>

\* except clauses that answer every exception alike
CatchAny(exception) == ErrorResponse(500, "Erro ao processar arquivo")

\* the except clauses of upload_csv around process_csv
Catch(exception) ==
  IF exception = "ValueError" THEN ErrorResponse(400, "Erro de validação")
  ELSE ErrorResponse(500, "Erro ao processar arquivo")

\* a pipeline whose empty filtered set fails as any other error does
ProcessErrorUntyped(file) ==
  IF ~file.readable THEN "ValueError"
  ELSE IF ~file.columns THEN "KeyError"
  ELSE IF filter_saidas(prepare_dataframe(file.rows)) = <<>> THEN "IndexError"
  ELSE ""

\* process_csv when it raises before the analysis: the file does not decode
\* or parse, a required column is missing, or no executed outflow is left
ProcessError(file) ==
  IF ~file.readable THEN "ValueError"
  ELSE IF ~file.columns THEN "KeyError"
  ELSE IF filter_saidas(prepare_dataframe(file.rows)) = <<>> THEN "ValueError"
  ELSE ""

\* process_csv from its start to the first call of the service
ProcessCsv ==
  /\ pc = "process"
  /\ LET exception == ProcessError(request.file)
     IN  IF exception # ""
         THEN /\ raised' = exception
              /\ response' = Some(Catch(exception))
              /\ pc' = "done"
              /\ UNCHANGED <<analyzer, locals>>
         ELSE \E df \in {filter_saidas(prepare_dataframe(request.file.rows))} :
              \E total \in {SumSeq(Valores(df))} :
              \E order \in SortValuesOrders(df) :
              \E top \in {calculate_top_categories(df, total, order)} :
              \E alerts \in {generate_alerts(df, top)} :
                /\ df_saidas' = df
                /\ total_gasto' = total
                /\ num_transacoes' = Len(df)
                /\ periodo' = Some(get_periodo(df))
                /\ top_categorias' = top
                /\ evolucao_mensal' = calculate_monthly_evolution(df)
                /\ alertas' = alerts
                /\ resumo' = Some(generate_executive_summary(
                                    total, Len(df), top, alerts))
                /\ attempt' = 0
                /\ log' = <<Event("call", 0)>>
                /\ pc' = "calling"
                /\ UNCHANGED <<e, content, insights, raised, response>>
  /\ UNCHANGED <<request, session>>

\* ----------------------------------------------------------- enrich route
\* enrich_analysis up to the first call of the service
EnrichAnalysis ==
  /\ pc = "start"
  /\ request.endpoint = "enrich"
  /\ IF request.data.valid
     THEN /\ top_categorias' = request.data.top_categorias
          /\ attempt' = 0
          /\ log' = <<Event("call", 0)>>
          /\ pc' = "calling"
          /\ response' = None
     ELSE /\ response' = Some(HTTPException(500, "Erro ao gerar insights adicionais"))
          /\ pc' = "done"
          /\ UNCHANGED <<top_categorias, attempt, log>>
  /\ UNCHANGED <<request, session, e, content, insights, df_saidas, total_gasto,
                 num_transacoes, periodo, evolucao_mensal, alertas, resumo,
                 raised>>

\* ------------------------------------------------- analyze_financial_data
\* a backoff of 2 ** (attempt + 1)
Pow2Next(n) == IF n = 0 THEN 2 ELSE IF n = 1 THEN 4 ELSE 8

Pow2(n) == IF n = 0 THEN 1 ELSE IF n = 1 THEN 2 ELSE IF n = 2 THEN 4 ELSE 8

\* the except clause of the retry loop, for the exception of this attempt
Except(exception) ==
  IF attempt = max_retries - 1
  THEN /\ insights' = Some(get_fallback_insights(top_categorias, alertas))
       /\ log' = log \o <<Event("fail", attempt), Event("fallback", attempt)>>
       /\ e' = ""
       /\ pc' = "returned"
       /\ UNCHANGED attempt
  ELSE /\ log' = log \o <<Event("fail", attempt), Event("sleep", Pow2(attempt))>>
       /\ e' = exception
       /\ pc' = "sleeping"
       /\ UNCHANGED <<attempt, insights>>

\* the awaited call returns a JSON reply: _generate_insights validates it
ServiceReplies ==
  /\ pc = "calling"
  /\ \E reply \in Replies(request.endpoint) :
       /\ content' = Some(reply)
       /\ IF ValidateRaises(reply)
          THEN Except("TypeError")
          ELSE /\ insights' = Some(validate_insights(reply))
               /\ log' = Append(log, Event("success", attempt))
               /\ pc' = "returned"
               /\ UNCHANGED <<attempt, e>>
  /\ UNCHANGED <<request, session, locals, raised, response>>

\* the awaited call times out, or its reply is no JSON, or the client raises
ServiceFails ==
  /\ pc = "calling"
  /\ \E exception \in FailureKinds : Except(exception)
  /\ content' = None
  /\ UNCHANGED <<request, session, locals, raised, response>>

\* asyncio.sleep returns: the next iteration of the loop calls again
BackoffDone ==
  /\ pc = "sleeping"
  /\ attempt' = attempt + 1
  /\ e' = ""
  /\ log' = Append(log, Event("call", attempt + 1))
  /\ content' = None
  /\ pc' = "calling"
  /\ UNCHANGED <<request, session, insights, locals, raised, response>>

\* ------------------------------------------------------- the callers go on
AnalysisResponse ==
  [total_gasto |-> total_gasto, numero_transacoes |-> num_transacoes,
   periodo_analise |-> periodo, top_categorias |-> top_categorias,
   evolucao_mensal |-> evolucao_mensal, alertas |-> alertas',
   resumo_executivo |-> resumo']

\* a try block whose except clause lets the error of a consumed entry out
enrich_report_raising(alerts, summary, ai_insights) ==
  LET consumed == AppendInsights(
                    alerts,
                    Take(ai_insights.insights_principais.items, ConsumedInsights))
  IN  [alertas |-> consumed.alertas,
       resumo |-> summary,
       raised |-> IF consumed.raised THEN "AttributeError" ELSE ""]

\* an enrichment that sorts the alerts by impact again after appending
enrich_report_sorted(alerts, summary, ai_insights) ==
  LET consumed == AppendInsights(
                    alerts,
                    Take(ai_insights.insights_principais.items, ConsumedInsights))
  IN  [alertas |-> SortByImpact(consumed.alertas),
       resumo |-> IF ~consumed.raised /\ ~ai_insights._fallback
                  THEN Some([summary[1] EXCEPT !.ia = TRUE])
                  ELSE summary,
       raised |-> ""]

\* the try block of process_csv around the enrichment, after the awaited
\* call returned: the alerts and the summary it leaves, and the exception
\* that leaves it (none: except Exception absorbs every one)
enrich_report(alerts, summary, ai_insights) ==
  LET consumed == AppendInsights(
                    alerts,
                    Take(ai_insights.insights_principais.items, ConsumedInsights))
  IN  [alertas |-> consumed.alertas,
       resumo |-> IF ~consumed.raised /\ ~ai_insights._fallback
                  THEN Some([summary[1] EXCEPT !.ia = TRUE])
                  ELSE summary,
       raised |-> ""]

\* process_csv after analyze_financial_data returned, and upload_csv after it
FinishUpload ==
  /\ pc = "returned"
  /\ request.endpoint = "upload"
  /\ LET enriched == enrich_report(alertas, resumo, insights[1])
     IN  /\ alertas' = enriched.alertas
         /\ resumo' = enriched.resumo
         /\ raised' = enriched.raised
         /\ response' = IF enriched.raised = ""
                        THEN Some(UploadResponse(AnalysisResponse))
                        ELSE Some(Catch(enriched.raised))
  /\ pc' = "done"
  /\ UNCHANGED <<request, session, analyzer, df_saidas, total_gasto, num_transacoes,
                 periodo, top_categorias, evolucao_mensal>>

\* enrich_analysis after analyze_financial_data returned
FinishEnrich ==
  /\ pc = "returned"
  /\ request.endpoint = "enrich"
  /\ response' = Some([status |-> 200, success |-> TRUE, detail |-> "",
                       analysis |-> None, insights |-> insights,
                       enrichment_type |->
                         IF ~insights[1]._fallback THEN "ai_powered"
                         ELSE "rule_based"])
  /\ pc' = "done"
  /\ UNCHANGED <<request, session, analyzer, locals, raised>>

Next ==
  \/ UploadCsv
  \/ ProcessCsv
  \/ EnrichAnalysis
  \/ ServiceReplies
  \/ ServiceFails
  \/ BackoffDone
  \/ FinishUpload
  \/ FinishEnrich

Spec == Init /\ [][Next]_vars

\* every awaited step ends, and the coroutine waiting for it goes on: the
\* service call by its reply, its failure or the 30 s timeout of wait_for,
\* asyncio.sleep by its duration, analyze_financial_data by its return
FairSpec ==
  /\ Spec
  /\ WF_vars(ServiceReplies \/ ServiceFails)
  /\ WF_vars(BackoffDone)
  /\ WF_vars(FinishUpload)
  /\ WF_vars(FinishEnrich)

\* -------------------------------------------------- a request served twice
\* The same upload is served a second time, at any time of the year, by a
\* service pinned to the outcomes it gave the first time.
Outcome(kind, reply) == [kind |-> kind, reply |-> reply]

NoReply == Reply(Missing, Missing, Missing, Missing, FALSE)

PinnedOutcomes ==
  { Outcome("reply", Reply(ListOf(l), Missing, Missing, Missing, FALSE)) :
      l \in { <<Insight(1), Insight(2)>>,
              <<Insight(1), Item(2, "text", Txt("Geral"), None)>> } }
  \cup { Outcome("reply", Reply(Num, Missing, Missing, Missing, FALSE)),
         Outcome("TimeoutError", NoReply) }

Succeeds(o) == o.kind = "reply" /\ ~ValidateRaises(o.reply)

\* what a pinned service gives attempt by attempt, up to its first success
Scripts ==
  { s \in UNION { [1..n -> PinnedOutcomes] : n \in 1..max_retries } :
      /\ \A i \in 1..(Len(s) - 1) : ~Succeeds(s[i])
      /\ Len(s) = max_retries \/ Succeeds(s[Len(s)]) }

RepeatInit ==
  /\ request \in { r \in Requests : r.endpoint = "upload" }
  /\ clock \in Months
  /\ run = 1
  /\ pinned \in Scripts
  /\ first = None
  /\ task = 1
  /\ suspended = None
  /\ file_content = NoBytes
  /\ encoding = ""
  /\ financial_data = NoFinancialData
  /\ score_data = None
  /\ Fresh

Nomes(top) == { top[i].nome : i \in 1..Len(top) }

NomesEmOrdem(top) == [i \in 1..Len(top) |-> top[i].nome]

\* process_csv; the sort is a function of its input, so the second run ranks
\* categories of equal totals as the first run did
RepeatedProcessCsv ==
  /\ ProcessCsv
  /\ (run = 2 /\ task = 1) => NomesEmOrdem(top_categorias') = first[1].order

PinnedReplies ==
  /\ attempt < Len(pinned)
  /\ pinned[attempt + 1].kind = "reply"
  /\ ServiceReplies
  /\ content' = Some(pinned[attempt + 1].reply)

PinnedFails ==
  /\ attempt < Len(pinned)
  /\ pinned[attempt + 1].kind \in FailureKinds
  /\ ServiceFails
  /\ e' \in {"", pinned[attempt + 1].kind}

\* upload_csv is called again with the same bytes: every local starts anew
Restart ==
  /\ pc = "done"
  /\ run = 1
  /\ first' = Some([response |-> response,
                    order |-> NomesEmOrdem(top_categorias),
                    clock |-> clock,
                    attempt |-> attempt,
                    log |-> log,
                    alertas |-> alertas,
                    resumo |-> resumo])
  /\ run' = 2
  /\ clock' \in Months
  /\ pc' = "start"
  /\ attempt' = 0
  /\ e' = ""
  /\ log' = <<>>
  /\ content' = None
  /\ insights' = None
  /\ df_saidas' = <<>>
  /\ total_gasto' = 0
  /\ num_transacoes' = 0
  /\ periodo' = None
  /\ top_categorias' = <<>>
  /\ evolucao_mensal' = <<>>
  /\ alertas' = <<>>
  /\ resumo' = None
  /\ raised' = ""
  /\ response' = None
  /\ UNCHANGED <<request, pinned, task, file_content, encoding,
                 financial_data, score_data, sim>>

Rerun ==
  /\ Restart
  /\ UNCHANGED suspended

RepeatNext ==
  \/ UploadCsv
  \/ RepeatedProcessCsv
  \/ PinnedReplies
  \/ PinnedFails
  \/ BackoffDone
  \/ FinishUpload
  \/ Rerun

RepeatSpec == RepeatInit /\ [][RepeatNext]_vars

\* ------------------------------------------------- two requests in flight
\* upload_csv is a coroutine: its locals, the CSVProcessor and the AIAnalyzer
\* it creates and the locals of the coroutines it awaits live in its frame.
\* The event loop runs one coroutine at a time and changes over where the
\* running one awaits: the read of the upload, the call of the service, the
\* sleep of the backoff, and its end.
SuspensionPoints == {"start", "calling", "sleeping", "done"}

\* a loop variable kept in one place for every request
SharedAttempt(frame) == attempt

\* the loop variable of analyze_financial_data in a frame
OwnAttempt(frame) == frame.attempt

Frame ==
  [task |-> task, request |-> request, pinned |-> pinned, pc |-> pc,
   attempt |-> attempt, e |-> e, log |-> log, content |-> content,
   insights |-> insights, df_saidas |-> df_saidas,
   total_gasto |-> total_gasto, num_transacoes |-> num_transacoes,
   periodo |-> periodo, top_categorias |-> top_categorias,
   evolucao_mensal |-> evolucao_mensal, alertas |-> alertas,
   resumo |-> resumo, raised |-> raised, response |-> response]

\* the frame of a request that has not begun
NewFrame(id, req, script) ==
  [task |-> id, request |-> req, pinned |-> script, pc |-> "start",
   attempt |-> 0, e |-> "", log |-> <<>>, content |-> None,
   insights |-> None, df_saidas |-> <<>>, total_gasto |-> 0,
   num_transacoes |-> 0, periodo |-> None, top_categorias |-> <<>>,
   evolucao_mensal |-> <<>>, alertas |-> <<>>, resumo |-> None,
   raised |-> "", response |-> None]

\* the event loop leaves the running coroutine at its await and resumes the
\* other one
Switch ==
  /\ ~IsNone(suspended)
  /\ pc \in SuspensionPoints
  /\ suspended' = Some(Frame)
  /\ LET frame == suspended[1]
     IN  /\ task' = frame.task
         /\ request' = frame.request
         /\ pinned' = frame.pinned
         /\ pc' = frame.pc
         /\ attempt' = OwnAttempt(frame)
         /\ e' = frame.e
         /\ log' = frame.log
         /\ content' = frame.content
         /\ insights' = frame.insights
         /\ df_saidas' = frame.df_saidas
         /\ total_gasto' = frame.total_gasto
         /\ num_transacoes' = frame.num_transacoes
         /\ periodo' = frame.periodo
         /\ top_categorias' = frame.top_categorias
         /\ evolucao_mensal' = frame.evolucao_mensal
         /\ alertas' = frame.alertas
         /\ resumo' = frame.resumo
         /\ raised' = frame.raised
         /\ response' = frame.response
  /\ UNCHANGED <<clock, run, first, file_content, encoding,
                 financial_data, score_data, sim>>

SampleLedger ==
  Indexed(<< Row(Txt("COMBUSTÍVEL"), Some(-150000), RawDate(15, 1, 2024),
                 SAIDA, SIM),
             Row(Txt("COMBUSTÍVEL"), Some(200000), RawDate(15, 2, 2024),
                 SAIDA, SIM) >>)

EqualLedger ==
  Indexed([i \in 1..3 |->
    Row(Txt(CatNames[i]), Some(100000), RawDate(15, 1, 2024), SAIDA, SIM)])

PairRequests ==
  { r \in Requests :
      /\ r.endpoint = "upload"
      /\ r.file.filename = "dados.csv"
      /\ r.file.readable /\ r.file.columns
      /\ r.file.size < MAX_FILE_SIZE
      /\ r.file.rows \in {<<>>, SampleLedger, EqualLedger} }

PairOutcomes ==
  { Outcome("reply",
            Reply(ListOf(<<Insight(1), Insight(2)>>),
                  Missing, Missing, Missing, FALSE)),
    Outcome("TimeoutError", NoReply) }

PairScripts == { s \in Scripts : \A i \in 1..Len(s) : s[i] \in PairOutcomes }

PairInit ==
  /\ request \in PairRequests
  /\ clock \in Months
  /\ run = 1
  /\ pinned \in PairScripts
  /\ first = None
  /\ task = 1
  /\ suspended = None
  /\ file_content = NoBytes
  /\ encoding = ""
  /\ financial_data = NoFinancialData
  /\ score_data = None
  /\ Fresh

\* the request is sent again while a second request is sent as well
StartPair ==
  /\ Restart
  /\ \E req \in PairRequests, script \in PairScripts :
       suspended' = Some(NewFrame(2, req, script))

PairNext ==
  \/ UploadCsv
  \/ RepeatedProcessCsv
  \/ PinnedReplies
  \/ PinnedFails
  \/ BackoffDone
  \/ FinishUpload
  \/ StartPair
  \/ Switch

PairSpec == PairInit /\ [][PairNext]_vars

\* --------------------------------------------- the first lines of process_csv
\* what chardet reports: nothing with confidence 0, or a name with some
\* confidence
DetectedNames == {"ascii", "utf-8", "ISO-8859-1", "Windows-1252"}

Confidences == {50, ConfidenceThreshold, 73, 99, 100}

ChardetResults ==
  { Detected(n, c) : n \in DetectedNames, c \in Confidences }
  \cup { Detected(NoEncoding, 0), DetectRaises }

Contents ==
  { Bytes(a, u, c, r) :
      a \in BOOLEAN, u \in BOOLEAN, c \in BOOLEAN, r \in ChardetResults }

EncodingInit ==
  /\ request \in { r \in PairRequests : r.file.rows = SampleLedger }
  /\ file_content \in { b \in Contents : b.ascii => (b.utf8 /\ b.cp1252) }
  /\ encoding = ""
  /\ clock = 1
  /\ run = 1
  /\ pinned = <<>>
  /\ first = None
  /\ task = 1
  /\ suspended = None
  /\ financial_data = NoFinancialData
  /\ score_data = None
  /\ Fresh

\* process_csv, line 47
DetectEncoding ==
  /\ pc = "process"
  /\ encoding = ""
  /\ encoding' = detect_encoding(file_content)
  /\ pc' = "detected"
  /\ UNCHANGED <<request, clock, run, pinned, first, task, suspended,
                 file_content, financial_data, score_data, sim, analyzer, locals,
                 raised, response>>

\* process_csv, lines 51-56: the bytes decode with the detected encoding, or
\* the error becomes a ValueError, which upload_csv answers
DecodeCsv ==
  /\ pc = "detected"
  /\ IF Decodes(file_content, encoding)
     THEN /\ pc' = "decoded"
          /\ UNCHANGED <<raised, response>>
     ELSE /\ raised' = "ValueError"
          /\ response' = Some(Catch("ValueError"))
          /\ pc' = "done"
  /\ UNCHANGED <<request, session, analyzer, locals>>

EncodingNext ==
  \/ UploadCsv
  \/ DetectEncoding
  \/ DecodeCsv

EncodingSpec == EncodingInit /\ [][EncodingNext]_vars

\* ----------------------------------------------------- the score endpoint
MaxVaried == 2

\* the entries of top_categories that vary, and entries that fill the list
Entries ==
  { Category("plain", v) : v \in {Number(-1190), Number(0), Number(1200), Texto} }
  \cup { Category("debt", v) : v \in {Number(1200), Number(51000), Texto} }
  \cup { Category(k, Number(1200)) : k \in {"soja", "cafe", "null"} }

Filler(k) == [i \in 1..k |-> Category("plain", Number(100))]

CategoryLists ==
  { l \o Filler(k) :
      l \in UNION { [1..n -> Entries] : n \in 0..MaxVaried },
      k \in {0, 4, 10} }

\* the 'valor' of the months: none, fewer than three, equal ones, and ones
\* that alternate, whose deviation is half their difference
MonthlyValues ==
  { <<>>, <<800>>, <<800, 800, 800>>, <<810, 790, 810, 790>>,
    <<0, 1000, 0, 1000>>, <<1351, 649, 1351, 649>> }

\* the 'impacto' of the anomalies
Anomalies ==
  { <<>>, <<15, -10>>, <<-95, -90, -90, -90>>, <<200, 200, 200>>, <<-50>>,
    <<50>> }

ScoreMonths == {1, 3, 6}

ScoreInit ==
  /\ request = [endpoint |-> "score", file |-> NoFile, data |-> NoData]
  /\ financial_data \in
       { FinancialData(c, m, a) :
           c \in CategoryLists, m \in MonthlyValues, a \in Anomalies }
  /\ score_data = None
  /\ clock \in ScoreMonths
  /\ run = 1
  /\ pinned = <<>>
  /\ first = None
  /\ task = 1
  /\ suspended = None
  /\ file_content = NoBytes
  /\ encoding = ""
  /\ Fresh

\* calculate_financial_health_score
CalculateScore ==
  /\ pc = "start"
  /\ request.endpoint = "score"
  /\ IF ScoreRaises(financial_data)
     THEN /\ response' = Some(HTTPException(
                                500, "Erro ao calcular score de saúde financeira"))
          /\ UNCHANGED score_data
     ELSE /\ score_data' = Some(calculate_score(financial_data, clock))
          /\ response' = Some([status |-> 200, success |-> TRUE, detail |-> "",
                               analysis |-> None, insights |-> None,
                               enrichment_type |-> ""])
  /\ pc' = "done"
  /\ UNCHANGED <<request, clock, run, pinned, first, task, suspended,
                 file_content, encoding, financial_data, sim, analyzer, locals,
                 raised>>

ScoreNext == CalculateScore

ScoreSpec == ScoreInit /\ [][ScoreNext]_vars

\* ------------------------------------------- one simulator, called in turn
MaxCalls == 2

\* the configurations of test_simulator.py, with each key of the tables, a
\* key the tables do not have, and keys left out
ScenarioConfigs ==
  { [type |-> "equipment_purchase", equipment |-> k, payment_method |-> "cash",
     current_monthly_flow |-> 20000]
    : k \in {"tractor_new", "tractor_used", "irrigation_system", "grain_silo",
             "worker_clt", "harvester"} }
  \cup { [type |-> "hiring", employment_type |-> "clt", positions |-> p,
          current_monthly_flow |-> 18000] : p \in {1, 2} }
  \cup { [type |-> "investment", investment |-> k,
          current_monthly_flow |-> 15000]
         : k \in {"irrigation_system", "grain_silo", "worker_daily"} }
  \cup { [type |-> "custom"], [type |-> "equipment_purchase"],
         [equipment |-> "tractor_new"] }

SimInit ==
  /\ request = [endpoint |-> "scenario-simulation", file |-> NoFile,
                data |-> NoData]
  /\ clock = 1
  /\ run = 1
  /\ pinned = <<>>
  /\ first = None
  /\ task = 1
  /\ suspended = None
  /\ file_content = NoBytes
  /\ encoding = ""
  /\ financial_data = NoFinancialData
  /\ score_data = None
  /\ Fresh

\* simulator.simulate_scenario(scenario_config), on the instance at hand
SimulateScenario ==
  /\ request.endpoint = "scenario-simulation"
  /\ Len(calls) < MaxCalls
  /\ \E scenario_config \in ScenarioConfigs :
       LET call == simulate_scenario(simulator, scenario_config)
       IN  /\ simulator' = call.self
           /\ calls' = Append(calls, scenario_config)
           /\ simulation' = Some([raised |-> call.raised, out |-> call.out])
  /\ UNCHANGED <<request, clock, run, pinned, first, task, suspended,
                 file_content, encoding, financial_data, score_data,
                 analyzer, locals, pc, raised, response>>

SimNext == SimulateScenario

SimSpec == SimInit /\ [][SimNext]_vars

\* ----------------------------------------------------------------- claims
EventsOf(ev) == { i \in 1..Len(log) : log[i].ev = ev }

LastEvent == IF log = <<>> THEN "" ELSE log[Len(log)].ev

\* C1: analyze_financial_data calls the service at most 3 times, makes
\* attempt n+1 only after attempt n failed and n < 3, returns the fallback
\* only after the 3rd attempt failed, and calls no more once a call has
\* succeeded or the fallback has been returned.
C1_RetryStateMachine ==
  /\ Cardinality(EventsOf("call")) <= 3
  /\ \A i \in EventsOf("call") :
       /\ log[i].n = Cardinality({ j \in EventsOf("call") : j < i })
       /\ log[i].n < 3
       /\ log[i].n > 0 =>
            \E j \in EventsOf("fail") : j < i /\ log[j].n = log[i].n - 1
  /\ \A i \in EventsOf("fail") : i > 1 /\ log[i - 1] = Event("call", log[i].n)
  /\ \A i \in EventsOf("fallback") :
       /\ i = Len(log)
       /\ log[i - 1] = Event("fail", 2)
       /\ Cardinality(EventsOf("fail")) = 3
  /\ \A i \in EventsOf("success") :
       i = Len(log) /\ log[i - 1] = Event("call", log[i].n)
  /\ ~IsNone(insights) <=> LastEvent \in {"success", "fallback"}
  /\ pc = "calling" <=> LastEvent = "call"

\* three calls failed and the fallback was returned
C1_Witness ==
  /\ pc = "done"
  /\ LastEvent = "fallback"
  /\ Cardinality(EventsOf("call")) = 3

\* C2: a backoff sleep happens only between a failed attempt and the next
\* one: 1 s after attempt 0 failed, 2 s after attempt 1 failed, none after
\* attempt 2 failed (the fallback is returned at once), none after a
\* success; at most 2 sleeps in a run.
C2_BackoffSleeps ==
  /\ \A i \in EventsOf("sleep") :
       /\ i > 1
       /\ \/ log[i - 1] = Event("fail", 0) /\ log[i].n = 1
          \/ log[i - 1] = Event("fail", 1) /\ log[i].n = 2
       /\ i < Len(log) => log[i + 1].ev = "call"
  /\ \A i \in EventsOf("fail") :
       /\ i < Len(log)
       /\ log[i].n = 2 => log[i + 1].ev = "fallback"
       /\ log[i].n < 2 => log[i + 1].ev = "sleep"
  /\ \A i \in EventsOf("success") : \A j \in EventsOf("sleep") : j < i - 1
  /\ Cardinality(EventsOf("sleep")) <= 2
  /\ pc = "sleeping" <=> LastEvent = "sleep"

\* a run that slept 1 s and 2 s and then returned the fallback
C2_Witness ==
  /\ pc = "done"
  /\ LastEvent = "fallback"
  /\ \E i, j \in EventsOf("sleep") : i < j /\ log[i].n = 1 /\ log[j].n = 2

\* the filtered set of the uploaded file is not empty
HasSaidas ==
  /\ request.endpoint = "upload"
  /\ request.file.readable
  /\ request.file.columns
  /\ filter_saidas(prepare_dataframe(request.file.rows)) # <<>>

\* the response is a success carrying every part of the analysis
CompleteReport ==
  /\ ~IsNone(response)
  /\ response[1].status = 200
  /\ response[1].success
  /\ ~IsNone(response[1].analysis)
  /\ LET analysis == response[1].analysis[1]
     IN  /\ analysis.total_gasto = total_gasto
         /\ analysis.numero_transacoes = Len(df_saidas)
         /\ ~IsNone(analysis.periodo_analise)
         /\ analysis.top_categorias # <<>>
         /\ analysis.top_categorias = top_categorias
         /\ analysis.evolucao_mensal = evolucao_mensal
         /\ analysis.alertas = alertas
         /\ ~IsNone(analysis.resumo_executivo)

\* the loop over the first three insights raised on an entry
ConsumptionRaised ==
  /\ ~IsNone(insights)
  /\ AppendInsights(<<>>, Take(insights[1].insights_principais.items,
                               ConsumedInsights)).raised

\* C3: whenever the filtered set is not empty, process_csv eventually returns
\* a complete AnalysisResponse, whatever the enrichment step does (a reply on
\* any attempt, a timeout, a malformed reply, a failure of all 3 attempts, an
\* exception while the result is consumed): nothing is raised to its caller.
C3_EnrichmentAbsorbed ==
  (HasSaidas /\ pc = "calling") ~> (pc = "done" /\ raised = "" /\ CompleteReport)

\* a complete report returned although consuming the result raised
C3_Witness ==
  /\ pc = "done"
  /\ HasSaidas
  /\ CompleteReport
  /\ ConsumptionRaised

\* C4: the result carries _fallback if and only if all 3 attempts failed; a
\* result validated from a reply is never classified rule_based (nor reported
\* without the AI mention) and a fallback never ai_powered, whatever keys the
\* reply holds.
C4_FallbackMarker ==
  /\ ~IsNone(insights) =>
       (insights[1]._fallback <=> LastEvent = "fallback")
  /\ (pc = "done" /\ request.endpoint = "enrich" /\ ~IsNone(insights)) =>
       /\ LastEvent = "success" => response[1].enrichment_type = "ai_powered"
       /\ LastEvent = "fallback" => response[1].enrichment_type = "rule_based"

Caps == <<CapInsights, CapAnalise, CapOportunidades, CapRecomendacoes>>

\* C5: every result of analyze_financial_data holds the four fields as lists
\* of at most 5, 5, 3 and 3 entries; a field the reply lacks is the empty
\* list, a longer list is cut to its first entries in their order.
C5_FourCappedLists ==
  ~IsNone(insights) =>
    \A i \in 1..4 :
      LET field == Fields(insights[1])[i]
      IN  /\ field.kind = "list"
          /\ Len(field.items) <= Caps[i]
          /\ LastEvent = "success" =>
               LET sent == Fields(content[1])[i]
               IN  /\ sent.kind = "missing" => field.items = <<>>
                   /\ sent.kind = "list" => field.items = Take(sent.items, Caps[i])

\* C6: in every report process_csv returns, the alerts are at most 10 and in
\* descending order of estimated impact, a null impact counting as 0.
C6_AlertsSortedCapped ==
  (pc = "done" /\ request.endpoint = "upload" /\ ~IsNone(response)
   /\ ~IsNone(response[1].analysis)) =>
    LET alerts == response[1].analysis[1].alertas
    IN  /\ Len(alerts) <= AlertCap
        /\ \A i, j \in 1..Len(alerts) :
             i < j => ~ImpGt(ImpOrZero(alerts[j].impacto_estimado),
                             ImpOrZero(alerts[i].impacto_estimado))

\* A row of the uploaded file that is an executed outflow with an amount, a
\* calendar date and a description, stated on the cells as they were read.
Qualifies(raw) ==
  /\ ~raw.operacao.nan /\ raw.operacao.base = "SAÍDA"
  /\ ~raw.realizado.nan /\ raw.realizado.base = "SIM"
  /\ ~IsNone(raw.valor)
  /\ ~IsNone(ParseDate(raw.data))
  /\ ~raw.descricao.nan

Qualifying == SelectSeq(request.file.rows, Qualifies)

AbsValores(rows) == [i \in 1..Len(rows) |-> Abs(rows[i].valor[1])]

\* the qualifying rows of a category, whatever its case and blanks
QualifyingOf(categoria) ==
  SelectSeq(Qualifying, LAMBDA raw : raw.descricao.base = categoria.base)

\* upload_csv handed the file to process_csv
Accepted ==
  /\ request.endpoint = "upload"
  /\ request.file.filename # ""
  /\ Extension(request.file.filename) \in ALLOWED_EXTENSIONS
  /\ request.file.size > 0
  /\ request.file.size <= MAX_FILE_SIZE

\* process_csv got past its filter
Analysed == Accepted /\ pc \notin {"start", "process"} /\ raised = ""

\* C7: every transaction that contributes to the total, the count, the
\* category aggregates, the monthly evolution or the alerts is an executed
\* outflow (SAÍDA, SIM after trimming and upper-casing) with a parsed date, a
\* description and the absolute value of the amount read, hence >= 0; a row
\* whose amount, date or description does not parse contributes to nothing.
C7_OnlyExecutedOutflows ==
  Analysed =>
    /\ \A i \in 1..Len(df_saidas) :
         LET r == df_saidas[i]
             raw == request.file.rows[r.idx]
         IN  /\ Qualifies(raw)
             /\ r.operacao = SAIDA /\ r.realizado = SIM
             /\ Some(r.data) = ParseDate(raw.data)
             /\ r.descricao = Txt(raw.descricao.base)
             /\ r.valor = Abs(raw.valor[1])
             /\ r.valor >= 0
    /\ total_gasto = SumSeq(AbsValores(Qualifying))
    /\ num_transacoes = Len(Qualifying)
    /\ \A i \in 1..Len(top_categorias) :
         LET cat == top_categorias[i]
         IN  /\ cat.transacoes = Len(QualifyingOf(cat.nome))
             /\ cat.transacoes > 0
             /\ cat.valor = Round2(SumSeq(AbsValores(QualifyingOf(cat.nome))))
    /\ \A i \in 1..Len(evolucao_mensal) :
         LET ev == evolucao_mensal[i]
         IN  /\ SumSeq([k \in 1..Len(ev.evolucao) |-> ev.evolucao[k].transacoes])
                  = Len(QualifyingOf(ev.categoria))
             /\ SumSeq([k \in 1..Len(ev.evolucao) |-> ev.evolucao[k].valor])
                  = SumSeq(AbsValores(QualifyingOf(ev.categoria)))
    /\ \A i \in 1..Len(alertas) :
         alertas[i].mensagem.texto # "insight" =>
           QualifyingOf(alertas[i].categoria) # <<>>

\* a report over a file with a negative outflow and a row that is left out
C7_Witness ==
  /\ Analysed
  /\ pc = "done"
  /\ \E i \in 1..Len(df_saidas) : request.file.rows[df_saidas[i].idx].valor[1] < 0
  /\ Len(Qualifying) < Len(request.file.rows)

C9_ThreeOutcomes ==
  (pc = "done" /\ request.endpoint = "upload") =>
    /\ ~IsNone(response)
    /\ \/ /\ response[1].status = 200
          /\ Accepted /\ raised = ""
          /\ CompleteReport
       \/ /\ response[1].status = 400
          /\ ~response[1].success
          /\ IsNone(response[1].analysis)
          /\ IF Accepted
             THEN /\ raised = "ValueError"
                  /\ response[1].detail = "Erro de validação"
                  /\ ~request.file.readable \/ Qualifying = <<>>
             ELSE raised = ""
       \/ /\ response[1].status = 500
          /\ ~response[1].success
          /\ IsNone(response[1].analysis)
          /\ Accepted /\ raised \notin {"", "ValueError"}

\* an upload answered 500: the file lacks a required column
C9_Witness ==
  /\ pc = "done"
  /\ request.endpoint = "upload"
  /\ response[1].status = 500
  /\ raised = "KeyError"

ReportedSum ==
  SumSeq([i \in 1..Len(response[1].analysis[1].top_categorias) |->
            response[1].analysis[1].top_categorias[i].valor])

\* half a cent for each reported total rounded to 2 decimals, in thousandths
Tolerance == 5 * Len(response[1].analysis[1].top_categorias)

\* C10 as stated: for every report, the sum of the reported category totals
\* equals total_gasto to within the rounding to 2 decimals.
C10_SumEqualsTotal ==
  (pc = "done" /\ CompleteReport) =>
    Abs(ReportedSum - response[1].analysis[1].total_gasto) <= Tolerance

\* C10: for every report over at most 5 categories, the sum of the reported
\* category totals equals total_gasto to within half a cent per category; a
\* report over more categories leaves the sixth and later ones out of the sum.
C10_SumEqualsTotalUpToFive ==
  (pc = "done" /\ CompleteReport /\ Cardinality(Categorias(df_saidas)) <= TopN) =>
    Abs(ReportedSum - response[1].analysis[1].total_gasto) <= Tolerance

\* a report over exactly 5 categories whose rounded totals miss the total
C10_Witness ==
  /\ pc = "done"
  /\ CompleteReport
  /\ Cardinality(Categorias(df_saidas)) = TopN
  /\ ReportedSum # response[1].analysis[1].total_gasto

\* the total of a category of the filtered set, at 2 decimals
TotalOf(categoria) == Round2(SumSeq(AbsValores(QualifyingOf(categoria))))

\* the sum of the percentages a ranking states, in hundredths of a percent
PercentSum(top) ==
  SumSeq([i \in 1..Len(top) |->
            IF IsNone(top[i].percentual) THEN 0 ELSE top[i].percentual[1]])

\* at most 5 entries, those of the largest totals, in non-increasing order,
\* each with the share of the total its total makes
RankingOfTotals(top) ==
  /\ Len(top) = Min(TopN, Cardinality(Categorias(df_saidas)))
  /\ Cardinality(Nomes(top)) = Len(top)
  /\ Nomes(top) \subseteq Categorias(df_saidas)
  /\ \A i \in 1..Len(top) :
       /\ top[i].valor = TotalOf(top[i].nome)
       /\ \A j \in 1..Len(top) : i < j => top[i].valor >= top[j].valor
       /\ \A c \in Categorias(df_saidas) \ Nomes(top) : TotalOf(c) <= top[i].valor
       /\ total_gasto > 0 =>
            top[i].percentual = Some(Pct(top[i].valor, total_gasto))

\* C11 as stated: top_categorias has at most 5 entries, the categories of the
\* largest totals in non-increasing order, each percentual is total / grand
\* total x 100 at 2 decimals, and the percentages sum to at most 100.
C11_TopFiveShares ==
  Analysed =>
    /\ RankingOfTotals(top_categorias)
    /\ PercentSum(top_categorias) <= 10000

\* every amount of the filtered set is a whole number of cents
WholeCents == \A i \in 1..Len(df_saidas) : df_saidas[i].valor % 10 = 0

\* C11: top_categorias has at most 5 entries, the categories of the largest
\* totals in non-increasing order, each percentual is total / grand total x
\* 100 rounded to 2 decimals; over amounts in whole cents the percentages sum
\* to at most 100 plus 0.005 for each entry (rounding can carry them above 100).
C11_TopFiveSharesRounded ==
  Analysed =>
    /\ RankingOfTotals(top_categorias)
    /\ WholeCents => 2 * PercentSum(top_categorias) <= 20000 + Len(top_categorias)

\* a ranking of whole-cent totals whose percentages sum to more than 100
C11_Witness ==
  /\ Analysed
  /\ pc = "done"
  /\ WholeCents
  /\ PercentSum(top_categorias) > 10000

\* the year and month of a row of the file, and their order
YearMonth(raw) == [y |-> ParseDate(raw.data)[1].y, m |-> ParseDate(raw.data)[1].m]

Later(a, b) == a.y > b.y \/ (a.y = b.y /\ a.m > b.m)

YearMonths(rows) == { YearMonth(rows[i]) : i \in 1..Len(rows) }

Latest(months) == CHOOSE a \in months : \A b \in months \ {a} : Later(a, b)

SumOfMonth(rows, month) ==
  SumSeq(AbsValores(SelectSeq(rows, LAMBDA raw : YearMonth(raw) = month)))

\* (latest - prior) / prior x 100 at 2 decimals over the two most recent
\* months of the rows, null with fewer than 2 months or a prior sum of 0
ExpectedVariation(rows) ==
  LET months == YearMonths(rows)
  IN  IF Cardinality(months) < 2 THEN None
      ELSE LET latest == Latest(months)
               prior == Latest(months \ {latest})
           IN  IF SumOfMonth(rows, prior) = 0 THEN None
               ELSE Some(Pct(SumOfMonth(rows, latest) - SumOfMonth(rows, prior),
                             SumOfMonth(rows, prior)))

\* C12: for every top category, variacao_mensal is null when the category has
\* transactions in fewer than 2 year-months or when the month before its
\* latest one sums to 0; otherwise it is (latest - prior) / prior x 100 at 2
\* decimals over the two most recent months the category has transactions in.
C12_MonthlyVariation ==
  Analysed =>
    \A i \in 1..Len(top_categorias) :
      top_categorias[i].variacao_mensal
        = ExpectedVariation(QualifyingOf(top_categorias[i].nome))

\* a category with transactions in 3 months, a prior month that is not the
\* first one, and a variation
C12_Witness ==
  /\ Analysed
  /\ pc = "done"
  /\ \E i \in 1..Len(top_categorias) :
       LET rows == QualifyingOf(top_categorias[i].nome)
           months == YearMonths(rows)
       IN  /\ Cardinality(months) = 3
           /\ ~IsNone(top_categorias[i].variacao_mensal)
           /\ \E a \in months :
                /\ \A b \in months \ {a} : Later(b, a)
                /\ SumOfMonth(rows, a)
                     # SumOfMonth(rows, Latest(months \ {Latest(months)}))

\* C13: process_csv run twice on the same bytes, with the service pinned to
\* the same replies or failures, returns the same report: the report depends
\* on nothing but the bytes and the service's outcomes, not on the clock, on
\* the request served before, or on an iteration order.
C13_SameReportTwice ==
  (run = 2 /\ pc = "done") => response = first[1].response

\* a second run in another season that ended in the fallback, which reads
\* the clock, over categories of equal totals, and returned a report
C13_Witness ==
  /\ run = 2
  /\ pc = "done"
  /\ clock # first[1].clock
  /\ LastEvent = "fallback"
  /\ response[1].status = 200
  /\ \E i, j \in 1..Len(top_categorias) :
       i # j /\ top_categorias[i].valor = top_categorias[j].valor

\* C14: a request whose steps interleave with those of a second request at
\* the awaited service call and the backoff sleep ends with the report, the
\* attempt counter, the retry events, the alerts and the summary it ends with
\* when it runs alone: neither request touches what the other owns.
C14_RequestsIsolated ==
  (run = 2 /\ task = 1 /\ pc = "done") =>
    /\ response = first[1].response
    /\ attempt = first[1].attempt
    /\ log = first[1].log
    /\ alertas = first[1].alertas
    /\ resumo = first[1].resumo

\* the request ended after a retry while the second one, which started later
\* and retried as well, waits in the middle of its own retry loop
C14_Witness ==
  /\ run = 2
  /\ task = 1
  /\ pc = "done"
  /\ attempt = 1
  /\ response[1].status = 200
  /\ ~IsNone(suspended)
  /\ suspended[1].pc = "sleeping"
  /\ suspended[1].attempt = 1
  /\ suspended[1].request # request

\* the fallback insights on a category that state the given share of its
\* total as their impact: a tenth for a variation, 15 % for a concentration
FallbackInsightsOn(cat, rate) ==
  LET items == insights[1].insights_principais.items
  IN  { i \in 1..Len(items) :
          /\ items[i].categoria = cat.nome
          /\ items[i].valor_impacto = Some(ImpMul(cat.valor, rate)) }

\* whether a pass of the alert engine emits an alert on the category
RuleFires(pass, cat) == \E i \in 1..Len(pass) : pass[i].categoria = cat.nome

\* C15: the fallback uses the thresholds of the alert engine: for each of the
\* top three categories it emits a variation insight exactly when the high
\* variation rule fires for it (variation above 30 %) and a concentration
\* insight exactly when the high concentration rule fires (share above 25 %).
C15_FallbackSameThresholds ==
  (LastEvent = "fallback" /\ ~IsNone(insights)) =>
    \A k \in 1..Min(Len(top_categorias), FallbackTopN) :
      LET cat == top_categorias[k]
      IN  /\ FallbackInsightsOn(cat, 100) # {}
             <=> RuleFires(VariationAlerts(top_categorias), cat)
          /\ FallbackInsightsOn(cat, 150) # {}
             <=> RuleFires(ConcentrationAlerts(top_categorias), cat)

\* an amount as the summary's "{:,.2f}" states it, in cents
StatedCents(x) == x.hi * 100 + RoundDiv(x.lo, 10000)

UrgentCount(alerts) == Len(SelectSeq(alerts, LAMBDA a : a.tipo = "urgent"))

\* C16: the potential savings the executive summary of a report states equal
\* the sum of the estimated impacts (null as 0) of all alerts of that report,
\* and the number of urgent alerts it states equals the number of URGENT
\* alerts of that report.
C16_SummaryMatchesAlerts ==
  (pc = "done" /\ CompleteReport) =>
    LET summary == response[1].analysis[1].resumo_executivo[1]
        alerts == response[1].analysis[1].alertas
    IN  /\ ImpGt(summary.potential_savings, ImpZero) =>
             StatedCents(summary.potential_savings) = StatedCents(ImpSum(alerts))
        /\ summary.urgent_alerts > 0 =>
             summary.urgent_alerts = UrgentCount(alerts)

\* the first of utf-8, latin1, iso-8859-1, cp1252 that decodes the bytes
FirstDecoding(bytes) ==
  LET decoding == { k \in 1..Len(encoding_options) :
                      Decodes(bytes, encoding_options[k]) }
  IN  IF decoding = {} THEN "latin1"
      ELSE encoding_options[CHOOSE k \in decoding : \A j \in decoding : k <= j]

\* C17: detect_encoding always returns the name of an encoding: the one
\* chardet detected only when its confidence is above 0.7, and otherwise (low
\* confidence, or chardet raised) the first of utf-8, latin1, iso-8859-1 and
\* cp1252 that decodes all of the content, latin1 when none does.
C17_DetectEncodingTotal ==
  (pc \in {"detected", "decoded"}) =>
    LET result == file_content.chardet
        confident == ~result.raises /\ result.confidence > 70
    IN  /\ encoding \notin {"", NoEncoding}
        /\ encoding # FirstDecoding(file_content) =>
             (confident /\ encoding = result.encoding)
        /\ ~confident => encoding = FirstDecoding(file_content)

\* chardet named an encoding with a confidence of exactly 0.7 for bytes that
\* are not UTF-8, and latin1 was returned
C17_Witness ==
  /\ pc = "decoded"
  /\ ~file_content.chardet.raises
  /\ file_content.chardet.confidence = 70
  /\ file_content.chardet.encoding = "Windows-1252"
  /\ ~file_content.utf8
  /\ encoding = "latin1"

\* an upload whose name passed the checks of upload_csv
NamedCsv ==
  /\ request.endpoint = "upload"
  /\ request.file.filename # ""
  /\ Extension(request.file.filename) \in ALLOWED_EXTENSIONS

\* C18: upload_csv never hands process_csv a content that is empty or larger
\* than 10 MB; it answers an upload larger than 10 MB with status 413 and an
\* empty upload with status 400 and the detail 'Arquivo vazio'.
C18_SizeLimitsAnswered ==
  /\ (request.endpoint = "upload" /\ pc = "process") =>
       (request.file.size > 0 /\ request.file.size <= 10 * 1024 * 1024)
  /\ (pc = "done" /\ NamedCsv /\ request.file.size > 10 * 1024 * 1024) =>
       response[1].status = 413
  /\ (pc = "done" /\ NamedCsv /\ request.file.size = 0) =>
       (response[1].status = 400 /\ response[1].detail = "Arquivo vazio")

\* a score in tenths that lies within [0, 100]
InRange(tenths) == tenths >= 0 /\ tenths <= 1000

\* C19: whenever calculate_score returns, its score_total lies within
\* [0, 100] and is the seasonally adjusted weighted sum 0.30 x liquidity +
\* 0.30 x debt + 0.40 x efficiency, clamped to [0, 100] (and stated to one
\* decimal, as every score of the result is), and each of the three component
\* scores lies within [0, 100].
C19_ScoreWithinRange ==
  (pc = "done" /\ ~IsNone(score_data)) =>
    LET r == score_data[1]
        weighted == Rat(30 * r.liquidez_score.n * r.endividamento_score.d
                          * r.eficiencia_score.d
                        + 30 * r.endividamento_score.n * r.liquidez_score.d
                          * r.eficiencia_score.d
                        + 40 * r.eficiencia_score.n * r.liquidez_score.d
                          * r.endividamento_score.d,
                        100 * r.liquidez_score.d * r.endividamento_score.d
                          * r.eficiencia_score.d)
        adjusted == apply_seasonal_adjustment(weighted, r.cultura_detectada, clock)
        clamped == IF RLt(Whole(100), adjusted) THEN Whole(100)
                   ELSE IF RLt(adjusted, Whole(0)) THEN Whole(0)
                   ELSE adjusted
    IN  /\ InRange(r.score_total)
        /\ r.score_total = Round1(clamped)
        /\ InRange(r.liquidez) /\ InRange(r.endividamento) /\ InRange(r.eficiencia)
        /\ \A c \in {r.liquidez_score, r.endividamento_score, r.eficiencia_score} :
             RLe(Whole(0), c) /\ RLe(c, Whole(100))

\* a score of a peak month of the detected culture whose adjusted sum
\* exceeds 100
C19_Witness ==
  /\ pc = "done"
  /\ ~IsNone(score_data)
  /\ clock \in PeakMonths(score_data[1].cultura_detectada)
  /\ RLt(Whole(100), score_data[1].seasonal_adjustment)
  /\ score_data[1].score_total = 1000

\* the URGENT alerts on a category among the alerts of the engine
UrgentOn(cat) ==
  { i \in 1..Len(alertas) :
      alertas[i].tipo = "urgent" /\ alertas[i].categoria = cat.nome }

\* the variation of a top category exceeds 30 %
ExceedsThirty(cat) ==
  ~IsNone(cat.variacao_mensal) /\ cat.variacao_mensal[1] > 30 * 100

\* the alerts _generate_alerts returned, none of which was cut off
EngineReturned ==
  /\ request.endpoint = "upload"
  /\ pc = "calling"
  /\ attempt = 0
  /\ Len(alertas) < AlertCap

\* one URGENT alert for each top category whose variation exceeds 30 %, with
\* total x variation / 100 as its impact, and none for any other category
HighVariationRule ==
  /\ \A k \in 1..Len(top_categorias) :
       LET cat == top_categorias[k]
       IN  IF ExceedsThirty(cat)
           THEN /\ Cardinality(UrgentOn(cat)) = 1
                /\ \A i \in UrgentOn(cat) :
                     alertas[i].impacto_estimado =
                       Some(ImpMul(cat.valor \div 10, cat.variacao_mensal[1]))
           ELSE UrgentOn(cat) = {}
  /\ \A i \in 1..Len(alertas) :
       alertas[i].tipo = "urgent" =>
         \E k \in 1..Len(top_categorias) :
           top_categorias[k].nome = alertas[i].categoria

\* the two rows of COMBUSTÍVEL: 150.00 in 01/2024 and 200.00 in 02/2024
TwoRowLedger == request.file.rows = SampleLedger

UrgentAlerts == SelectSeq(alertas, LAMBDA a : a.tipo = "urgent")

\* C20 as stated: the high variation rule, and for the two-row COMBUSTÍVEL
\* ledger exactly one URGENT alert, on COMBUSTÍVEL, with an estimated impact
\* of 116.67 to the cent.
C20_HighVariationImpact ==
  EngineReturned =>
    /\ HighVariationRule
    /\ TwoRowLedger =>
         /\ Len(UrgentAlerts) = 1
         /\ UrgentAlerts[1].categoria = Txt("COMBUSTÍVEL")
         /\ StatedCents(UrgentAlerts[1].impacto_estimado[1]) = 11667

\* C20 as amended: the high variation rule, and for the two-row COMBUSTÍVEL
\* ledger exactly one URGENT alert, on COMBUSTÍVEL, with an estimated impact
\* of 350.00 x 33.33 / 100 = 116.655.
C20_HighVariationImpactExact ==
  EngineReturned =>
    /\ HighVariationRule
    /\ TwoRowLedger =>
         /\ Len(UrgentAlerts) = 1
         /\ UrgentAlerts[1].categoria = Txt("COMBUSTÍVEL")
         /\ UrgentAlerts[1].impacto_estimado = Some(Imp(116, 655000))

\* the engine returned the alerts of the two-row ledger, one of them URGENT
C20_Witness ==
  /\ EngineReturned
  /\ TwoRowLedger
  /\ top_categorias[1].variacao_mensal = Some(3333)
  /\ UrgentAlerts # <<>>

\* the WARNING alerts on a category among the alerts of the engine
WarningOn(cat) ==
  { i \in 1..Len(alertas) :
      alertas[i].tipo = "warning" /\ alertas[i].categoria = cat.nome }

\* the share of a top category exceeds 25 %
ExceedsQuarter(cat) ==
  ~IsNone(cat.percentual) /\ cat.percentual[1] > 25 * 100

\* a tenth of an amount in thousandths, as an impact
Tenth(valor) == Imp(valor \div 10000, (valor % 10000) * 100)

\* C21: among the alerts the engine returns (none cut off), there is exactly
\* one WARNING alert for each top category whose share of the grand total is
\* strictly above 25 %, with a tenth of the category total as its estimated
\* impact, and no WARNING alert for a category at or below 25 %.
C21_HighConcentrationRule ==
  EngineReturned =>
    /\ \A k \in 1..Len(top_categorias) :
         LET cat == top_categorias[k]
         IN  IF ExceedsQuarter(cat)
             THEN /\ Cardinality(WarningOn(cat)) = 1
                  /\ \A i \in WarningOn(cat) :
                       alertas[i].impacto_estimado = Some(Tenth(cat.valor))
             ELSE WarningOn(cat) = {}
    /\ \A i \in 1..Len(alertas) :
         alertas[i].tipo = "warning" =>
           \E k \in 1..Len(top_categorias) :
             top_categorias[k].nome = alertas[i].categoria

\* a ledger with a category at exactly 25 %, which gets no WARNING alert,
\* and one above, which gets one
C21_Witness ==
  /\ EngineReturned
  /\ \E k \in 1..Len(top_categorias) :
       top_categorias[k].percentual = Some(2500) /\ WarningOn(top_categorias[k]) = {}
  /\ \E k \in 1..Len(top_categorias) :
       ExceedsQuarter(top_categorias[k]) /\ WarningOn(top_categorias[k]) # {}

InfoOn(categoria) ==
  { i \in 1..Len(alertas) :
      alertas[i].tipo = "info" /\ alertas[i].categoria = categoria }

\* the j-th smallest of the amounts v
OrderStat(v, j) ==
  CHOOSE x \in { v[i] : i \in 1..Len(v) } :
    /\ Cardinality({ i \in 1..Len(v) : v[i] < x }) < j
    /\ j <= Cardinality({ i \in 1..Len(v) : v[i] <= x })

\* 100 times the p-th percentile of v, interpolated linearly between the
\* order statistics around position (n - 1) * p / 100
Percentile100(v, p) ==
  LET h == (Len(v) - 1) * p
      below == OrderStat(v, h \div 100 + 1)
  IN  IF h % 100 = 0 THEN 100 * below
      ELSE 100 * below + (h % 100) * (OrderStat(v, h \div 100 + 2) - below)

\* x > Q3 + 1.5 * (Q3 - Q1)
AboveFence(v, x) ==
  200 * x > 5 * Percentile100(v, 75) - 3 * Percentile100(v, 25)

Flagged(v) == { i \in 1..Len(v) : AboveFence(v, v[i]) }

AmountsOf(categoria) == Valores(RowsOf(df_saidas, categoria))

\* C22: every category of the filtered set with at least 4 transactions, in
\* the top five or not, gets an INFO alert exactly when one of its amounts
\* exceeds Q3 + 1.5 * (Q3 - Q1), with Q1 and Q3 the linearly interpolated
\* 25th and 75th percentiles; it gets at most one, which counts the amounts
\* flagged; a category with fewer than 4 transactions gets none.  Amounts
\* 10, 10, 10, 1000 flag 1000 alone and give exactly one INFO alert.
C22_OutlierRule ==
  EngineReturned =>
    /\ \A c \in Categorias(df_saidas) :
         LET v == AmountsOf(c)
         IN  IF Len(v) >= 4 /\ Flagged(v) # {}
             THEN /\ Cardinality(InfoOn(c)) = 1
                  /\ \A i \in InfoOn(c) :
                       alertas[i].mensagem.n = Cardinality(Flagged(v))
             ELSE InfoOn(c) = {}
    /\ \A i \in 1..Len(alertas) :
         alertas[i].tipo = "info" =>
           alertas[i].categoria \in Categorias(df_saidas)
    /\ \A c \in Categorias(df_saidas) :
         LET v == AmountsOf(c)
         IN  (Len(v) = 4
              /\ { i \in 1..4 : v[i] = 10000 } \cup { i \in 1..4 : v[i] = 1000000 }
                   = 1..4
              /\ Cardinality({ i \in 1..4 : v[i] = 1000000 }) = 1)
             => /\ Cardinality(InfoOn(c)) = 1
                /\ Flagged(v) = { i \in 1..4 : v[i] = 1000000 }

\* amounts 10, 10, 10, 1000 of a category outside the top five were flagged
C22_Witness ==
  /\ EngineReturned
  /\ \E c \in Categorias(df_saidas) :
       /\ AmountsOf(c) = <<10000, 10000, 10000, 1000000>>
       /\ \A k \in 1..Len(top_categorias) : top_categorias[k].nome # c
       /\ InfoOn(c) # {}

\* the last call of simulate_scenario bought an equipment that has a cost
Financed ==
  /\ calls # <<>>
  /\ Get(calls[Len(calls)], "type", "custom") = "equipment_purchase"
  /\ simulation[1].raised = ""

\* C23: for every predefined equipment the financing has a down payment of
\* 20 % of the cost of the equipment and a financed amount of the cost less
\* the down payment, so down payment plus financed amount is the total
\* investment, and the total interest is 60 instalments less the financed
\* amount.
C23_FinancingShares ==
  Financed =>
    LET equipment == simulation[1].out[1].equipment
        financing == simulation[1].out[1].payment_scenarios.financing
    IN  /\ financing.down_payment = Rat(20 * equipment.cost.n, 100 * equipment.cost.d)
        /\ financing.financed_amount
             = RSub(equipment.cost, financing.down_payment)
        /\ RAdd(financing.down_payment, financing.financed_amount)
             = financing.total_investment
        /\ financing.total_investment = equipment.cost
        /\ financing.total_interest
             = RSub(RMul(financing.monthly_payment, Whole(60)),
                    financing.financed_amount)

\* the new tractor of the test was financed: 90 000 down, 360 000 financed,
\* instalments of 7 299.50
C23_Witness ==
  /\ Financed
  /\ simulation[1].out[1].equipment.name = "Trator Novo (120cv)"
  /\ simulation[1].out[1].payment_scenarios.financing.down_payment
       = Whole(90000)
  /\ simulation[1].out[1].payment_scenarios.financing.financed_amount
       = Whole(360000)
  /\ simulation[1].out[1].payment_scenarios.financing.monthly_payment
       = Rat(729950, 100)

TypeOf(scenario_config) == Get(scenario_config, "type", "custom")

\* what a simulator nobody has called yet answers to a configuration
FirstCall(scenario_config) ==
  LET call == simulate_scenario(FinancialScenarioSimulator, scenario_config)
  IN  [raised |-> call.raised, out |-> call.out]

\* C30: whatever calls of simulate_scenario were made on a simulator, of
\* whatever type, in whatever order and with whatever configuration, its
\* predefined_scenarios, rates, taxes and seasonality are the tables it was
\* built with, and the last call returned (or raised) what it would have
\* on a simulator never called before.
C30_TablesUnchanged ==
  /\ simulator.predefined_scenarios = predefined_scenarios
  /\ simulator.rates = rates
  /\ simulator.taxes = taxes
  /\ simulator.seasonality = seasonality
  /\ calls # <<>> => simulation[1] = FirstCall(calls[Len(calls)])

\* an investment in irrigation was simulated twice in a row, and the second
\* call states the same return of 305 % as the base of its sensitivity
\* analysis
C30_Witness ==
  /\ Len(calls) >= 2
  /\ calls[1] = [type |-> "investment", investment |-> "irrigation_system",
                 current_monthly_flow |-> 15000]
  /\ calls[2] = calls[1]
  /\ simulation[1].raised = ""
  /\ simulation[1].out[1].sensitivity_analysis.base_scenario = Whole(305)
  /\ simulation[1].out[1].sensitivity_analysis.pessimistic_scenario = Whole(200)

\* the alerts of the outlier pass among the alerts _generate_alerts returned
InfoAlerts == { i \in 1..Len(alertas) : alertas[i].tipo = "info" }

Whole0(x) == x.hi = 0 /\ x.lo = 0

\* C25, as stated: the estimated impact of every INFO outlier alert,
\* sum(outliers) - mean(outliers) * count(outliers), is 0 for every set of
\* outliers, so outlier alerts add nothing to the potential savings of the
\* executive summary.
C25_OutlierImpactZero ==
  EngineReturned =>
    /\ \A i \in InfoAlerts : alertas[i].impacto_estimado = Some(ImpZero)
    /\ resumo[1].potential_savings
         = ImpSum(SelectSeq(alertas, LAMBDA a : a.tipo # "info"))

\* C25, amended: the estimated impact of every INFO outlier alert is 0 up to
\* floating-point rounding: it is exactly 0 for a single outlier, and for
\* several outliers it is 0 or the residue the rounding of sum / count leaves,
\* of either sign, so outlier alerts add no more than such residues to the
\* potential savings of the executive summary.
C25_OutlierImpactResidue ==
  EngineReturned =>
    /\ \A i \in InfoAlerts :
         /\ ~IsNone(alertas[i].impacto_estimado)
         /\ Whole0(alertas[i].impacto_estimado[1])
         /\ alertas[i].mensagem.n = 1
              => alertas[i].impacto_estimado[1].residue = 0
    /\ LET others == ImpSum(SelectSeq(alertas, LAMBDA a : a.tipo # "info"))
       IN  /\ resumo[1].potential_savings.hi = others.hi
           /\ resumo[1].potential_savings.lo = others.lo

\* three outliers left a residue below 0
C25_Witness ==
  /\ EngineReturned
  /\ \E i \in InfoAlerts :
       /\ alertas[i].mensagem.n = 3
       /\ alertas[i].impacto_estimado[1].residue < 0
       /\ Whole0(alertas[i].impacto_estimado[1])

\* the alerts _generate_alerts returned, cut off or not
EngineRan ==
  /\ request.endpoint = "upload"
  /\ pc = "calling"
  /\ attempt = 0

RuleAlerts == { i \in 1..Len(alertas) : alertas[i].tipo \in {"urgent", "warning"} }

WarningAlerts == { i \in 1..Len(alertas) : alertas[i].tipo = "warning" }

\* at most 5 URGENT and at most 3 WARNING alerts, each of a strictly positive
\* impact and ranked before every INFO alert, and every top category that
\* qualifies for one still has it after the cut to ten
RuleAlertsKept ==
  /\ Len(UrgentAlerts) <= TopN
  /\ Cardinality(WarningAlerts) <= 3
  /\ \A i \in RuleAlerts :
       /\ ImpGt(alertas[i].impacto_estimado[1], Imp(0, 0))
       /\ \A j \in InfoAlerts : i < j
  /\ \A k \in 1..Len(top_categorias) :
       /\ ExceedsThirty(top_categorias[k]) => UrgentOn(top_categorias[k]) # {}
       /\ ExceedsQuarter(top_categorias[k]) => WarningOn(top_categorias[k]) # {}

\* C24 as stated: for any filtered ledger there are at most 5 URGENT and at
\* most 3 WARNING alerts, each with a strictly positive estimated impact and
\* ranked before every INFO alert, so the cut to ten drops INFO alerts only.
C24_TruncationKeepsRules == EngineRan => RuleAlertsKept

\* C24 as amended: the same, for a filtered ledger whose amounts are whole
\* numbers of cents.
C24_TruncationKeepsRulesCents == (EngineRan /\ WholeCents) => RuleAlertsKept

\* a ledger of whole cents with 5 URGENT, 3 WARNING and 5 INFO alerts, of
\* which the cut to ten kept the 8 and two INFO alerts
C24_Witness ==
  /\ EngineRan
  /\ WholeCents
  /\ Len(alertas) = AlertCap
  /\ Len(UrgentAlerts) = TopN
  /\ Cardinality(WarningAlerts) = 3
  /\ Cardinality(InfoAlerts) = 2
  /\ Cardinality({ c \in Categorias(df_saidas) :
                     Len(AmountsOf(c)) >= 4 /\ Flagged(AmountsOf(c)) # {} }) = 5

TopNames == { top_categorias[k].nome : k \in 1..Len(top_categorias) }

EvolutionKeys == { evolucao_mensal[k].categoria : k \in 1..Len(evolucao_mensal) }

\* C26: in every report the keys of evolucao_mensal are the names in
\* top_categorias, also when categories tie at the top-5 boundary or differ
\* only below the rounding to 2 decimals.
C26_EvolutionKeysAreTopNames == Analysed => EvolutionKeys = TopNames

\* process_csv stands between _generate_executive_summary and its return
Enriching ==
  /\ request.endpoint = "upload"
  /\ pc \in {"calling", "sleeping", "returned"}

\* the alerts after the step are the alerts before it followed by INFO
\* alerts built, in order, from the first entries of insights_principais
AppendedFromInsights ==
  LET n == Len(alertas)
      m == Len(alertas')
      items == Take(insights[1].insights_principais.items, ConsumedInsights)
  IN  /\ n <= m
      /\ m - n <= Len(items)
      /\ SubSeq(alertas', 1, n) = alertas
      /\ \A k \in 1..(m - n) :
           /\ alertas'[n + k].tipo = "info"
           /\ alertas'[n + k].categoria = items[k].categoria
           /\ alertas'[n + k].impacto_estimado = items[k].valor_impacto

\* C27: the enrichment step of process_csv only appends to the alerts: the
\* alerts of _generate_alerts stay as an unchanged prefix, followed by at
\* most 3 INFO alerts built from the first 3 entries of insights_principais,
\* and total_gasto, numero_transacoes, periodo_analise, top_categorias and
\* evolucao_mensal are left unchanged, in the locals and in the report.
C27_EnrichmentAppends ==
  [][Enriching =>
       /\ UNCHANGED <<total_gasto, num_transacoes, periodo, top_categorias,
                      evolucao_mensal>>
       /\ pc' # "done" => alertas' = alertas
       /\ pc' = "done" =>
            /\ AppendedFromInsights
            /\ response'[1].status = 200
            /\ response'[1].analysis[1].alertas = alertas'
            /\ response'[1].analysis[1].total_gasto = total_gasto
            /\ response'[1].analysis[1].numero_transacoes = num_transacoes
            /\ response'[1].analysis[1].periodo_analise = periodo
            /\ response'[1].analysis[1].top_categorias = top_categorias
            /\ response'[1].analysis[1].evolucao_mensal = evolucao_mensal]_vars

\* a report whose alerts are those of the engine, one of them at least,
\* followed by three alerts built from insights
C27_Witness ==
  /\ request.endpoint = "upload"
  /\ pc = "done"
  /\ Analysed
  /\ Len(alertas) >= ConsumedInsights + 1
  /\ alertas[1].mensagem.texto # "insight"
  /\ \A k \in 0..(ConsumedInsights - 1) :
       alertas[Len(alertas) - k].mensagem.texto = "insight"
  /\ response[1].analysis[1].alertas = alertas

\* an entry among the first three of insights_principais could not be
\* turned into an alert
ConversionFailed ==
  /\ request.endpoint = "upload"
  /\ pc = "done"
  /\ Analysed
  /\ AppendInsights(<<>>, Take(insights[1].insights_principais.items,
                               ConsumedInsights)).raised

\* C28: if turning an enrichment insight into an alert fails, the returned
\* report contains exactly the rule-based alerts and none of the alerts
\* derived from the enrichment, and its executive summary does not claim AI
\* enrichment.
C28_EnrichmentAllOrNothing ==
  ConversionFailed =>
    /\ alertas = generate_alerts(df_saidas, top_categorias)
    /\ response[1].analysis[1].alertas = alertas
    /\ ~resumo[1].ia

\* the level that belongs to a score of one decimal, in tenths
LevelOf(tenths) ==
  IF tenths >= 800 THEN "Excelente"
  ELSE IF tenths >= 600 THEN "Bom"
  ELSE IF tenths >= 400 THEN "Regular"
  ELSE "Precisa Atenção"

Scored == request.endpoint = "score" /\ pc = "done" /\ ~IsNone(score_data)

\* C29: in every result of calculate_score the level nivel agrees with the
\* reported score_total: 'Excelente' iff score_total >= 80, 'Bom' iff
\* 60 <= score_total < 80, 'Regular' iff 40 <= score_total < 60 and
\* 'Precisa Atenção' iff score_total < 40.
C29_LevelAgreesWithScore ==
  Scored => score_data[1].nivel = LevelOf(score_data[1].score_total)

====
